---- MODULE Spec2Model ----
(***************************************************************************)
(* Verification model of volt-agent (Toggl -> Fibery reporting pipeline).  *)
(*                                                                         *)
(* Part I   process_with_rolling_window   (src/src/patterns)               *)
(* Part II  JSON run storage, relational cache run rows                    *)
(* Part III TogglFiberyPipeline workflow and its activities                *)
(***************************************************************************)
EXTENDS Integers, Sequences, FiniteSets, TLC

(***************************************************************************)
(* Bounds                                                                  *)
(***************************************************************************)
MaxItems == 3
MaxConc == 2
MaxAttempts == 2

VARIABLES
    \* ---- Part I: one call of process_with_rolling_window ----
    rw_pc,            \* "start" | "wait" | "returned" | "raised"
    entities,         \* the input list; item k is the k-th input position
    max_concurrent,
    remaining,        \* deque of unstarted items
    running,          \* keys of the running dict (task ids)
    results,          \* the output list
    rw_error,         \* item named by the raised error, 0 = none
    taskEntity,       \* task id -> entity (running[task]); Len = tasks created
    taskState,        \* task id -> "pending" | "ok" | "failed" (event loop)
    startCount        \* item -> number of create_task(process_fn(item))

rwVars == <<rw_pc, entities, max_concurrent, remaining, running, results,
            rw_error, taskEntity, taskState, startCount>>

VARIABLES
    \* ---- Part II: stores ----
    files,            \* run id -> file name -> content (0 = file absent)
    meta,             \* run id -> run_metadata.json (NoMeta = file absent)
    db_runs           \* run id -> row of the runs table (NoRow = no row)

storeVars == <<meta, db_runs>>

VARIABLES
    \* ---- Part III: TogglFiberyPipeline workflow executions ----
    wf_state,         \* "none" | "running" | "completed" | "failed"
    wf_attempt,       \* number of workflow executions started so far
    wf_input,         \* PipelineInput: run_id, start_from, users
    wf_act,           \* index of the activity awaited, 0 = none
    act_result,       \* "" = not finished, "ok", or the error text
    wf_invoked,       \* activity index -> execute_activity calls in this run
    wf_succeeded,     \* activities that returned normally in this run
    wf_error,         \* text of the error that failed the workflow
    progress          \* self.progress (ProgressInfo)

wfVars == <<wf_state, wf_attempt, wf_input, wf_act, act_result, wf_invoked,
            wf_succeeded, wf_error, progress>>

VARIABLES
    \* ---- Part IV: tables of the relational cache ----
    time_entries,     \* toggl_time_entries: the set of its rows
    te_clock,         \* number of upsert_time_entries calls (datetime.now())
    te_last,          \* entry id -> what the last call holding it passed
    processed,        \* processed_time_entries: row -> number of copies
    pe_clock,         \* number of upsert_processed_entries calls
    pe_last,          \* key -> what the last call holding it passed
    pe_not_null,      \* the key columns are declared NOT NULL
    pe_raised         \* the last upsert_processed_entries raised

dbVars == <<time_entries, te_clock, te_last, processed, pe_clock, pe_last,
            pe_not_null, pe_raised>>

VARIABLES
    \* ---- Part V: one process running run_report_generation (main.py) ----
    dp_pc,            \* "idle" | "created" | "loaded" | "done" | "crashed"
    dp_run,           \* run_id of the run
    dp_use_cache,
    dp_toggl_requests,\* calls of TogglClient.get_time_entries in this run
    dp_raw,           \* raw_entries
    dp_reports        \* the reports of this run have been written

dpVars == <<dp_pc, dp_run, dp_use_cache, dp_toggl_requests, dp_raw, dp_reports>>

coreVars == <<rwVars, files, storeVars, wfVars>>

VARIABLES
    \* ---- Part VI: one call of TogglClient.get_time_entries ----
    tg_pc,            \* "start" | "loop" | "attempt" | "responded" |
                      \* "returned" | "raised"
    tg_max_retries,
    tg_start,         \* start_date
    tg_end,           \* end_date
    tg_current,       \* current, as a day number
    tg_days,          \* the dates _fetch_day was called with, in call order
    tg_day_results,   \* what each finished _fetch_day returned
    tg_all_entries,   \* all_entries
    tg_day_entries,   \* entries of the running _fetch_day
    tg_page,          \* page_num of the running _fetch_day
    tg_attempt,       \* attempt of the running _make_request
    tg_backoff,       \* backoff of the running _make_request
    tg_sent,          \* requests.post calls of the running _make_request
    tg_waits,         \* its time.sleep calls, in order
    tg_statuses       \* what each of its requests.post calls met

togglVars == <<tg_pc, tg_max_retries, tg_start, tg_end, tg_current, tg_days,
               tg_day_results, tg_all_entries, tg_day_entries, tg_page,
               tg_attempt, tg_backoff, tg_sent, tg_waits, tg_statuses>>

VARIABLES
    \* ---- Part VII: one FiberyClient and the calls made on it ----
    fb_pc,            \* "idle" | "attempt" (inside the loop of _make_request)
    fb_max_retries,
    fb_max_rpm,
    fb_now,           \* time.time(), in seconds
    fb_request_times, \* self.request_times
    fb_calls,         \* calls of _make_request so far
    fb_attempt,       \* attempt of the running _make_request
    fb_sent,          \* requests.request calls of the running/last call
    fb_last,          \* what the last of them met ("" = none yet)
    fb_last_wait,     \* the time.sleep that followed it (0 = none)
    fb_result,        \* "" | "body" | "absent": what the last call returned
    fb_send_times     \* the time of every requests.request call so far

fiberyVars == <<fb_pc, fb_max_retries, fb_max_rpm, fb_now, fb_request_times,
                fb_calls, fb_attempt, fb_sent, fb_last, fb_last_wait,
                fb_result, fb_send_times>>

VARIABLES
    \* ---- Part VIII: one call of FiberyParser.parse ----
    ps_pc,            \* "input" | "returned"
    ps_description,   \* the argument: a string (sequence of characters) or None
    ps_result         \* the dictionary returned

parserVars == <<ps_pc, ps_description, ps_result>>

VARIABLES
    \* ---- Part IX: the task loop of enrich_features_from_tasks ----
    ft_pc,            \* "loop" | "returned"
    ft_tasks,         \* all_feature_tasks of one Feature
    ft_feature_tasks, \* feature_tasks
    ft_completed,     \* completed_count
    ft_overdue,       \* overdue_count
    ft_stats          \* feature_data['aggregated_stats']

statsVars == <<ft_pc, ft_tasks, ft_feature_tasks, ft_completed, ft_overdue,
               ft_stats>>

VARIABLES
    \* ---- Part X: ReportGenerator statistics ----
    rp_pc,            \* "individual" | "team" | "done"
    rp_matched,       \* matched_entries of generate_individual_report
    rp_unmatched,     \* unmatched_entries of generate_individual_report
    rp_individual,    \* the statistics of the individual report
    rp_user_stats,    \* user_stats of run_report_generation
    rp_team           \* the statistics of the team report

reportVars == <<rp_pc, rp_matched, rp_unmatched, rp_individual, rp_user_stats,
                rp_team>>

VARIABLES
    \* ---- Part XI: `pipeline run`, cancel-run and show-run ----
    cli_pc,           \* "idle" | "exited" | "started" | "running" | "closed"
    cli_clock,        \* datetime.utcnow(), in whole seconds
    cli_option,       \* the --run-id option
    cli_run_id,       \* run_id of _run_pipeline_async
    cli_workflow_id,  \* the id the workflow was started under
    cli_input,        \* pipeline_input.run_id
    cli_wf_run_id,    \* run_id of TogglFiberyPipeline.run
    cli_dirs,         \* the run directories that hold artifacts
    cli_cancel,       \* what the last cancel-run addressed
    cli_show          \* what the last show-run addressed

cliVars == <<cli_pc, cli_clock, cli_option, cli_run_id, cli_workflow_id,
             cli_input, cli_wf_run_id, cli_dirs, cli_cancel, cli_show>>

VARIABLES
    \* ---- Part XII: max_concurrent in enrich_entities_by_type ----
    mc_pc,            \* "loop" | "returned"
    mc_config,        \* config["enrichment_activities"]
    mc_groups,        \* the type names of entities_by_type not yet processed
    mc_used           \* type name -> max_concurrent its group was run with

concVars == <<mc_pc, mc_config, mc_groups, mc_used>>

VARIABLES
    \* ---- Part XIII: the enrichment set of one run ----
    ex_pc,            \* "extract" | "enrich" | "reports" | "done" | "raised"
    ex_aggregated,    \* user -> matched_entities of toggl_aggregated.json
    ex_by_type,       \* entities_by_type, in insertion order
    ex_group,         \* number of groups enriched so far
    ex_enriched,      \* all_enriched
    ex_entity_map     \* entity_map of generate_person_reports

extractVars == <<ex_pc, ex_aggregated, ex_by_type, ex_group, ex_enriched,
                 ex_entity_map>>

VARIABLES
    \* ---- Part XIV: one call of enrich_entities_batch ----
    eb_pc,            \* "loop" | "returned"
    eb_entities,      \* the list of requests
    eb_use_cache,
    eb_done,          \* number of requests the loop has taken
    eb_enriched,      \* the keys of the dictionary `enriched`
    eb_errors,        \* self.stats['errors']
    eb_cache,         \* public ids of the entities held by the cache
    eb_log            \* per request taken: its position and how it ended

batchVars == <<eb_pc, eb_entities, eb_use_cache, eb_done, eb_enriched,
               eb_errors, eb_cache, eb_log>>

VARIABLES
    \* ---- Part XV: one call of TogglClient._fetch_day ----
    fd_pc,                \* "request" | "response" | "returned"
    fd_next_id,           \* the local next_id
    fd_first_row_number,  \* the local first_row_number
    fd_page_num,
    fd_payload,           \* the cursor keys of the last request sent
    fd_previous,          \* the two headers of the last response taken
    fd_entries            \* number of entries gathered

dayVars == <<fd_pc, fd_next_id, fd_first_row_number, fd_page_num, fd_payload,
             fd_previous, fd_entries>>

VARIABLES
    \* ---- Part XVI: the activities of one workflow run, users and reports ----
    fs_pc,              \* the activity to run next, or "completed" | "failed"
    fs_users_option,    \* PipelineInput.users (<<>> when absent)
    fs_toggl,           \* the entries Toggl holds for the period
    fs_raw,             \* the entries of raw_toggl_data.json
    fs_aggregated,      \* the keys of aggregated_data["users"]
    fs_enriched,        \* the enriched entities returned by the enrichment
    fs_person_reports,  \* the users of the person reports generated
    fs_files            \* the files written by the Fibery stage

stageVars == <<fs_pc, fs_users_option, fs_toggl, fs_raw, fs_aggregated,
               fs_enriched, fs_person_reports, fs_files>>

VARIABLES
    \* ---- Part XVII: writers of one run_metadata.json ----
    lm_writers,   \* number of writers on the run id (1 or 2)
    lm_file,      \* the content of run_metadata.json
    lm_pc,        \* per writer: "idle" | "loaded"
    lm_call,      \* per writer: the call in progress
    lm_loaded,    \* per writer: the metadata object it loaded
    lm_calls,     \* number of calls begun
    lm_saved      \* the calls that saved, in the order of their saves

writerVars == <<lm_writers, lm_file, lm_pc, lm_call, lm_loaded, lm_calls,
                lm_saved>>

VARIABLES
    \* ---- Part XVIII: one call of aggregate_toggl_data ----
    ag_pc,          \* "loop" | "done"
    ag_entries,     \* raw_data["time_entries"]
    ag_done,        \* number of entries the loop has taken
    ag_user_data    \* user_data: email -> user_info

aggVars == <<ag_pc, ag_entries, ag_done, ag_user_data>>

\* The variables of Parts I to IX.
olderVars == <<coreVars, dbVars, dpVars, togglVars, fiberyVars, parserVars,
               statsVars>>

\* The variables of the parts after Part IX.
moreVars == <<reportVars, cliVars, concVars, extractVars, batchVars, dayVars, stageVars, writerVars, aggVars>>








\* The variables that the actions of one later part leave alone.
othersReport == <<olderVars, cliVars, concVars, extractVars, batchVars, dayVars, stageVars, writerVars, aggVars>>
othersCli == <<olderVars, reportVars, concVars, extractVars, batchVars, dayVars, stageVars, writerVars, aggVars>>
othersConc == <<olderVars, reportVars, cliVars, extractVars, batchVars, dayVars, stageVars, writerVars, aggVars>>
othersExtract == <<olderVars, reportVars, cliVars, concVars, batchVars, dayVars, stageVars, writerVars, aggVars>>
othersBatch == <<olderVars, reportVars, cliVars, concVars, extractVars, dayVars, stageVars, writerVars, aggVars>>
othersDay == <<olderVars, reportVars, cliVars, concVars, extractVars, batchVars, stageVars, writerVars, aggVars>>
othersStage == <<olderVars, reportVars, cliVars, concVars, extractVars, batchVars, dayVars, writerVars, aggVars>>
othersWriter == <<olderVars, reportVars, cliVars, concVars, extractVars, batchVars, dayVars, stageVars, aggVars>>
othersAgg == <<olderVars, reportVars, cliVars, concVars, extractVars, batchVars, dayVars, stageVars, writerVars>>

\* The variables of the parts after Part V.
laterVars == <<togglVars, fiberyVars, parserVars, statsVars, moreVars>>

extVars == <<dbVars, dpVars, laterVars>>

vars == <<coreVars, extVars>>


Min(a, b) == IF a < b THEN a ELSE b

Range(s) == {s[i] : i \in DOMAIN s}

\* All orders in which the elements of a finite set can be iterated.
Orders(S) ==
    {s \in [1..Cardinality(S) -> S] : \A i, j \in 1..Cardinality(S) : s[i] = s[j] => i = j}

(***************************************************************************)
(* Part II: JSON run storage and the runs table of the relational cache.   *)
(***************************************************************************)
Runs == {"r1", "r2"}
Users == {"u1", "u2"}

\* Entry ids handed out by Toggl.
EntryIds == {1, 2}

\* te_last of an id that no call has passed yet.
NoEntry ==
    [run_id |-> "", duration |-> 0, description |-> "", updated_at |-> 0,
     calls |-> 0]

\* None, stored as SQL NULL.
Null == "NULL"

\* The parser results that reach the processed table: every tag present,
\* an entity id without tags, and no match.
ParsedKinds ==
    {[entity_id |-> "7", entity_database |-> "Scrum", entity_type |-> "Task",
      project |-> "P", is_matched |-> TRUE],
     [entity_id |-> "7", entity_database |-> Null, entity_type |-> Null,
      project |-> Null, is_matched |-> TRUE],
     [entity_id |-> Null, entity_database |-> Null, entity_type |-> Null,
      project |-> Null, is_matched |-> FALSE]}

\* The conflict target of upsert_processed_entries
KeyColumns ==
    {"run_id", "user_email", "description_clean", "entity_id",
     "entity_database", "entity_type", "project"}

ProcessedKeys ==
    {[run_id |-> r, user_email |-> "u1", description_clean |-> "d",
      entity_id |-> k.entity_id, entity_database |-> k.entity_database,
      entity_type |-> k.entity_type, project |-> k.project] :
        r \in Runs, k \in ParsedKinds}

\* pe_last of a key that no call has passed yet.
NoMeasure == [total_duration |-> 0, entry_count |-> 0]

\* A table without rows (row -> number of copies).
EmptyTable == [row \in {} |-> 0]

\* A database file without raw or processed rows.
DbIdle ==
    /\ time_entries = {}
    /\ te_clock = 0
    /\ te_last = [i \in EntryIds |-> NoEntry]
    /\ processed = EmptyTable
    /\ pe_clock = 0
    /\ pe_last = [k \in ProcessedKeys |-> NoMeasure]
    /\ pe_not_null = FALSE
    /\ pe_raised = FALSE

\* No run_report_generation has been started.
DirectIdle ==
    /\ dp_pc = "idle"
    /\ dp_run = ""
    /\ dp_use_cache = FALSE
    /\ dp_toggl_requests = 0
    /\ dp_raw = <<>>
    /\ dp_reports = FALSE

\* No call of TogglClient.get_time_entries.
TogglIdle ==
    /\ tg_pc = "start"
    /\ tg_max_retries = 0
    /\ tg_start = [m |-> 3, d |-> 1]
    /\ tg_end = [m |-> 2, d |-> 28]
    /\ tg_current = 0
    /\ tg_days = <<>>
    /\ tg_day_results = <<>>
    /\ tg_all_entries = <<>>
    /\ tg_day_entries = <<>>
    /\ tg_page = 0
    /\ tg_attempt = 0
    /\ tg_backoff = 0
    /\ tg_sent = 0
    /\ tg_waits = <<>>
    /\ tg_statuses = <<>>

\* No FiberyClient in use.
FiberyIdle ==
    /\ fb_pc = "idle"
    /\ fb_max_retries = 0
    /\ fb_max_rpm = 1
    /\ fb_now = 0
    /\ fb_request_times = <<>>
    /\ fb_calls = 0
    /\ fb_attempt = 0
    /\ fb_sent = 0
    /\ fb_last = ""
    /\ fb_last_wait = 0
    /\ fb_result = ""
    /\ fb_send_times = <<>>

\* Python's None where a string is expected.
None == <<"None">>

\* _empty_result(None)
EmptyResult ==
    [description_clean |-> <<>>, entity_id |-> None, entity_database |-> None,
     entity_type |-> None, project |-> None, is_matched |-> FALSE]

\* No call of FiberyParser.parse.
ParserIdle ==
    /\ ps_pc = "input"
    /\ ps_description = None
    /\ ps_result = EmptyResult

\* aggregated_stats of a Feature that has not been enriched.
NoStats ==
    [total_tasks |-> -1, completed_tasks |-> -1, remaining_tasks |-> -1,
     overdue_tasks |-> -1]

\* No call of enrich_features_from_tasks.
StatsIdle ==
    /\ ft_pc = "loop"
    /\ ft_tasks = <<>>
    /\ ft_feature_tasks = <<>>
    /\ ft_completed = 0
    /\ ft_overdue = 0
    /\ ft_stats = NoStats

\* The greatest common divisor of two naturals.
RECURSIVE GCD(_, _)
GCD(a, b) == IF b = 0 THEN a ELSE GCD(b, a % b)

\* A percentage or a number of hours as an exact fraction in lowest terms
\* (den > 0).
Fraction(num, den) ==
    [num |-> num \div GCD(num, den), den |-> den \div GCD(num, den)]

\* The statistics of a report that has not been generated.
NoReport ==
    [total_seconds |-> -1, matched_seconds |-> -1, unmatched_seconds |-> -1,
     total_hours |-> Fraction(0, 1), matched_pct |-> Fraction(0, 1),
     unmatched_pct |-> Fraction(0, 1)]

\* No report is being generated.
ReportIdle ==
    /\ rp_pc = "done"
    /\ rp_matched = <<>>
    /\ rp_unmatched = <<>>
    /\ rp_individual = NoReport
    /\ rp_user_stats = <<>>
    /\ rp_team = NoReport

\* A run id that is None; run ids are pairs <<kind, number>>.
NoRunId == <<"None", 0>>

\* f"toggl-fibery-{run_id}"
WorkflowId(run_id) == <<"toggl-fibery">> \o run_id

\* No cancel-run or show-run has been issued.
NoAddress == [run_id |-> NoRunId, hit |-> FALSE]

\* No pipeline command has been issued.
CliIdle ==
    /\ cli_pc = "idle"
    /\ cli_clock = 0
    /\ cli_option = NoRunId
    /\ cli_run_id = NoRunId
    /\ cli_workflow_id = WorkflowId(NoRunId)
    /\ cli_input = NoRunId
    /\ cli_wf_run_id = NoRunId
    /\ cli_dirs = {}
    /\ cli_cancel = NoAddress
    /\ cli_show = NoAddress

\* A max_concurrent key that is absent from its entry (or whose entry is
\* absent).
Unset == -1

\* The type names {database}/{entity_type} of the groups.
TypeNames == {"Scrum/Task", "Product/Feature"}

\* No call of enrich_entities_by_type.
ConcIdle ==
    /\ mc_pc = "returned"
    /\ mc_config = [types |-> [t \in TypeNames |-> Unset], default |-> Unset]
    /\ mc_groups = <<>>
    /\ mc_used = [t \in TypeNames |-> Unset]

\* No Fibery stage has run.
ExtractIdle ==
    /\ ex_pc = "done"
    /\ ex_aggregated = [u \in Users |-> <<>>]
    /\ ex_by_type = <<>>
    /\ ex_group = 0
    /\ ex_enriched = <<>>
    /\ ex_entity_map = [i \in {} |-> 0]

\* No call of enrich_entities_batch.
BatchIdle ==
    /\ eb_pc = "returned"
    /\ eb_entities = <<>>
    /\ eb_use_cache = FALSE
    /\ eb_done = 0
    /\ eb_enriched = {}
    /\ eb_errors = 0
    /\ eb_cache = {}
    /\ eb_log = <<>>

\* Python values of the pagination cursor: None, a string, an integer.
PyNone == [type |-> "None", text |-> "", number |-> 0]
PyStr(text) == [type |-> "str", text |-> text, number |-> 0]
PyInt(number) == [type |-> "int", text |-> "", number |-> number]

\* No call of _fetch_day.
DayIdle ==
    /\ fd_pc = "returned"
    /\ fd_next_id = PyNone
    /\ fd_first_row_number = PyNone
    /\ fd_page_num = 0
    /\ fd_payload = [first_id |-> PyNone, first_row_number |-> PyNone]
    /\ fd_previous = [next_id |-> PyNone, first_row_number |-> PyNone]
    /\ fd_entries = 0

\* No workflow run of Part XVI.
StageIdle ==
    /\ fs_pc = "completed"
    /\ fs_users_option = <<>>
    /\ fs_toggl = {}
    /\ fs_raw = {}
    /\ fs_aggregated = {}
    /\ fs_enriched = {}
    /\ fs_person_reports = <<>>
    /\ fs_files = {}

\* The writers of Part XVII and the metadata calls they make.
Writers == 1..2
NoCall == [kind |-> "none", arg |-> ""]

\* No writer of Part XVII.
WriterIdle ==
    /\ lm_writers = 1
    /\ lm_file = [status |-> "absent", error_message |-> "", completed_at |-> FALSE,
                  stages_completed |-> <<>>, stages_failed |-> <<>>]
    /\ lm_pc = [w \in Writers |-> "idle"]
    /\ lm_call = [w \in Writers |-> NoCall]
    /\ lm_loaded = [w \in Writers |-> lm_file]
    /\ lm_calls = 0
    /\ lm_saved = <<>>

\* No call of aggregate_toggl_data.
AggIdle ==
    /\ ag_pc = "done"
    /\ ag_entries = <<>>
    /\ ag_done = 0
    /\ ag_user_data = <<>>

\* Nothing of the parts after Part IX is in use.
MoreIdle ==
    /\ ReportIdle
    /\ CliIdle
    /\ ConcIdle
    /\ ExtractIdle
    /\ BatchIdle
    /\ DayIdle
    /\ StageIdle
    /\ WriterIdle
    /\ AggIdle

RunStatus == {"in_progress", "completed", "failed"}
StageType == {"toggl", "fibery"}
Terminal == {"completed", "failed"}

\* error_message arguments: "" stands for None (both are falsy)
ErrorTexts == {"", "boom"}
\* total_entries arguments: -1 stands for None / NULL
TotalEntries == {-1, 0}

\* Files of a run directory.
RawToggl == "raw_toggl_data.json"
TogglAggregated == "toggl_aggregated.json"
TogglSummary == "reports/toggl_summary.md"
EnrichedData == "enriched_data.json"
TeamSummary == "reports/team_summary.md"
IndividualReport(u) == "reports/individual/" \o u \o ".md"

TogglFiles == {RawToggl, TogglAggregated, TogglSummary}
IndividualFiles == {IndividualReport(u) : u \in Users}
FiberyFiles == {EnrichedData, TeamSummary} \cup IndividualFiles
FileNames == TogglFiles \cup FiberyFiles

NoMeta ==
    [status |-> "absent", error_message |-> "", completed_at |-> FALSE,
     stages_completed |-> <<>>, stages_failed |-> <<>>]

NoRow == [status |-> "absent", total_entries |-> -1]

\* JSONStorage.save_run_metadata with a newly built RunMetadata
SaveRunMetadata(r) ==
    /\ meta[r] = NoMeta
    /\ meta' = [meta EXCEPT ![r] = [NoMeta EXCEPT !.status = "in_progress"]]
    /\ UNCHANGED <<db_runs, rwVars, files, wfVars, extVars>>

\* JSONStorage.update_run_status: load, assign, save
update_run_status(m, status, error_message) ==
    [m EXCEPT !.status = status,
              !.completed_at = IF status \in Terminal THEN TRUE ELSE @,
              !.error_message = IF error_message # "" THEN error_message ELSE @]

UpdateRunStatus(r, status, error_message) ==
    /\ meta' = [meta EXCEPT ![r] =
                  IF @ = NoMeta THEN @ ELSE update_run_status(@, status, error_message)]
    /\ UNCHANGED <<db_runs, rwVars, files, wfVars, extVars>>

\* JSONStorage.add_completed_stage / add_failed_stage
AddCompletedStageMutantPrepend(r, stage) ==
    /\ meta' = [meta EXCEPT ![r] =
                  IF @ # NoMeta /\ stage \notin Range(@.stages_completed)
                  THEN [@ EXCEPT !.stages_completed = <<stage>> \o @]
                  ELSE @]
    /\ UNCHANGED <<db_runs, rwVars, files, wfVars, extVars>>

AddCompletedStage(r, stage) ==
    /\ meta' = [meta EXCEPT ![r] =
                  IF @ # NoMeta /\ stage \notin Range(@.stages_completed)
                  THEN [@ EXCEPT !.stages_completed = Append(@, stage)]
                  ELSE @]
    /\ UNCHANGED <<db_runs, rwVars, files, wfVars, extVars>>

AddFailedStage(r, stage) ==
    /\ meta' = [meta EXCEPT ![r] =
                  IF @ # NoMeta /\ stage \notin Range(@.stages_failed)
                  THEN [@ EXCEPT !.stages_failed = Append(@, stage)]
                  ELSE @]
    /\ UNCHANGED <<db_runs, rwVars, files, wfVars, extVars>>

\* Database.create_run: INSERT INTO runs (..., status) VALUES (..., 'in_progress')
DbCreateRun(r) ==
    /\ db_runs[r] = NoRow
    /\ db_runs' = [db_runs EXCEPT ![r] = [status |-> "in_progress", total_entries |-> -1]]
    /\ UNCHANGED <<meta, rwVars, files, wfVars, extVars>>

\* Database.update_run_status: UPDATE runs SET status = ?[, total_entries = ?]
\* WHERE run_id = ?
DbUpdateRunStatus(r, status, total_entries) ==
    /\ db_runs' = [db_runs EXCEPT ![r] =
                     IF @ = NoRow THEN @
                     ELSE IF total_entries # -1
                          THEN [status |-> status, total_entries |-> total_entries]
                          ELSE [@ EXCEPT !.status = status]]
    /\ UNCHANGED <<meta, rwVars, files, wfVars, extVars>>

(***************************************************************************)
(* Part III: the workflow.  Activities are numbered in program order.      *)
(***************************************************************************)
ActivityNames ==
    <<"cleanup_toggl_stage", "fetch_toggl_data", "aggregate_toggl_data",
      "generate_toggl_report", "cleanup_fibery_stage", "extract_fibery_entities",
      "enrich_entities_by_type", "generate_person_reports", "save_enriched_data",
      "generate_team_report">>

\* self.progress.percentage assigned before each execute_activity
PercentageMutantSwapped == <<5, 10, 30, 25, 35, 40, 50, 75, 85, 95>>

Percentage == <<5, 10, 25, 30, 35, 40, 50, 75, 85, 95>>

NumActivities == Len(ActivityNames)
FirstFiberyActivity == 5

\* TogglFiberyPipeline.__init__
InitProgress ==
    [current_stage |-> "initializing", current_activity |-> "", percentage |-> 0]

\* JSONStorage.cleanup_toggl_stage: unlink the three files that exist
cleanup_toggl_stage_MutantAll(fs) == [f \in FileNames |-> 0]

cleanup_toggl_stage(fs) ==
    [f \in FileNames |-> IF f \in TogglFiles THEN 0 ELSE fs[f]]

\* JSONStorage.cleanup_fibery_stage: enriched data, team report, individual/*.md
cleanup_fibery_stage_MutantKeepsReports(fs) ==
    [f \in FileNames |-> IF f \in {EnrichedData, TeamSummary} THEN 0 ELSE fs[f]]

cleanup_fibery_stage(fs) ==
    [f \in FileNames |->
        IF f \in {EnrichedData, TeamSummary} \cup IndividualFiles THEN 0 ELSE fs[f]]

\* open(path, 'w'): the file now holds what this execution wrote
WriteFile(fs, f, a) == [fs EXCEPT ![f] = a]

WriteFiles(fs, F, a) == [f \in FileNames |-> IF f \in F THEN a ELSE fs[f]]

Ok(fs) == [result |-> "ok", fs |-> fs]
Err(text, fs) == [result |-> text, fs |-> fs]

\* An activity that does not return for a reason outside its own checks
\* (time-out, credentials, a failing service call), before any write.
ActivityError == "ActivityError"

\* The outcomes of activity i on a run directory fs, for the workflow
\* execution number a and the users argument us: the activity's own raise
\* when a file it loads is missing, else its writes.
ActivityOutcomes(i, fs, a, us) ==
    {Err(ActivityError, fs)} \cup
    CASE i = 1 -> {Ok(cleanup_toggl_stage(fs))}
      [] i = 2 -> {Ok(WriteFile(fs, RawToggl, a))}
      [] i = 3 -> IF fs[RawToggl] = 0
                  THEN {Err("No raw Toggl data found", fs)}
                  ELSE {Ok(WriteFile(fs, TogglAggregated, a))}
      [] i = 4 -> IF fs[TogglAggregated] = 0
                  THEN {Err("No aggregated Toggl data found", fs)}
                  ELSE {Ok(WriteFile(fs, TogglSummary, a))}
      [] i = 5 -> {Ok(cleanup_fibery_stage(fs))}
      [] i \in {6, 8} -> IF fs[TogglAggregated] = 0
                  THEN {Err("No aggregated Toggl data found", fs)}
                  ELSE {Ok(fs)}
      [] i = 7 -> {Ok(fs)}
      [] i = 9 -> {Ok(WriteFiles(fs, {EnrichedData} \cup {IndividualReport(u) : u \in us}, a))}
                  \cup {Err(ActivityError,
                            WriteFiles(fs, {EnrichedData} \cup {IndividualReport(u) : u \in S}, a))
                        : S \in SUBSET us}
      [] i = 10 -> IF fs[EnrichedData] = 0 \/ fs[TogglAggregated] = 0
                   THEN {Err("Missing data for team report generation", fs)}
                   ELSE {Ok(WriteFile(fs, TeamSummary, a))}

\* A client starts a workflow execution; the engine constructs the workflow
\* object.  Executions on this model follow one another.
WfStart(r, sf, us) ==
    /\ wf_state # "running"
    /\ wf_attempt < MaxAttempts
    /\ wf_state' = "running"
    /\ wf_attempt' = wf_attempt + 1
    /\ wf_input' = [run_id |-> r, start_from |-> sf, users |-> us]
    /\ wf_act' = 0
    /\ act_result' = ""
    /\ wf_invoked' = [i \in 1..NumActivities |-> 0]
    /\ wf_succeeded' = {}
    /\ wf_error' = ""
    /\ progress' = InitProgress
    /\ UNCHANGED <<files, storeVars, rwVars, extVars>>

\* self.progress.current_stage after the assignments preceding activity i
StageAtMutantNoFibery(i, stage) == IF i = 1 THEN "toggl" ELSE stage

StageAt(i, stage) ==
    IF i = 1 THEN "toggl" ELSE IF i = FirstFiberyActivity THEN "fibery" ELSE stage

\* The assignments to self.progress that precede execute_activity(i), and
\* the call itself.
ScheduleActivity(i) ==
    /\ progress' = [current_stage |-> StageAt(i, progress.current_stage),
                    current_activity |-> ActivityNames[i],
                    percentage |-> Percentage[i]]
    /\ wf_act' = i
    /\ act_result' = ""
    /\ wf_invoked' = [wf_invoked EXCEPT ![i] = @ + 1]

\* run() up to its first execute_activity: _load_config, the stub
\* _create_run_metadata, then the Toggl stage or, skipping it, the Fibery stage.
FirstActivityMutantAlwaysToggl(start_from) == 1

FirstActivity(start_from) == IF start_from = "toggl" THEN 1 ELSE FirstFiberyActivity

WfRun ==
    /\ wf_state = "running"
    /\ wf_act = 0
    /\ ScheduleActivity(FirstActivity(wf_input.start_from))
    /\ UNCHANGED <<wf_state, wf_attempt, wf_input, wf_succeeded, wf_error,
                   files, storeVars, rwVars, extVars>>

\* A worker executes the awaited activity.
ActivityExec ==
    /\ wf_state = "running"
    /\ wf_act # 0
    /\ act_result = ""
    /\ \E o \in ActivityOutcomes(wf_act, files[wf_input.run_id], wf_attempt,
                                 wf_input.users) :
         /\ files' = [files EXCEPT ![wf_input.run_id] = o.fs]
         /\ act_result' = o.result
    /\ UNCHANGED <<wf_state, wf_attempt, wf_input, wf_act, wf_invoked,
                   wf_succeeded, wf_error, progress, storeVars, rwVars, extVars>>

\* _update_run_status, _add_completed_stage, _create_run_metadata: `pass`
WorkflowMetaStub(m) == m

\* The workflow resumes with the activity's result: the next activity, the
\* end of run() after the last one, or the except clause of run().
WfResume ==
    /\ wf_state = "running"
    /\ wf_act # 0
    /\ act_result # ""
    /\ meta' = [meta EXCEPT ![wf_input.run_id] = WorkflowMetaStub(@)]
    /\ IF act_result = "ok"
       THEN /\ wf_succeeded' = wf_succeeded \cup {wf_act}
            /\ IF wf_act = NumActivities
               THEN /\ progress' = [progress EXCEPT !.percentage = 100]
                    /\ wf_state' = "completed"
                    /\ wf_act' = 0
                    /\ UNCHANGED <<act_result, wf_invoked, wf_error>>
               ELSE /\ ScheduleActivity(wf_act + 1)
                    /\ UNCHANGED <<wf_state, wf_error>>
       ELSE /\ wf_state' = "failed"
            /\ wf_error' = act_result
            /\ wf_act' = 0
            /\ UNCHANGED <<act_result, wf_invoked, wf_succeeded, progress>>
    /\ UNCHANGED <<wf_attempt, wf_input, files, db_runs, rwVars, extVars>>

WfNext ==
    \/ \E r \in Runs, sf \in {"toggl", "fibery"}, us \in SUBSET Users : WfStart(r, sf, us)
    \/ WfRun
    \/ ActivityExec
    \/ WfResume
    \/ \E r \in Runs : SaveRunMetadata(r)

\* Empty stores and no workflow execution yet.
InitWF ==
    /\ MoreIdle
    /\ rw_pc = "start"
    /\ entities = <<>>
    /\ max_concurrent = 1
    /\ remaining = <<>>
    /\ running = {}
    /\ results = <<>>
    /\ rw_error = 0
    /\ taskEntity = <<>>
    /\ taskState = <<>>
    /\ startCount = <<>>
    /\ files = [r \in Runs |-> [f \in FileNames |-> 0]]
    /\ meta = [r \in Runs |-> NoMeta]
    /\ db_runs = [r \in Runs |-> NoRow]
    /\ wf_state = "none"
    /\ wf_attempt = 0
    /\ wf_input = [run_id |-> "r1", start_from |-> "toggl", users |-> {}]
    /\ wf_act = 0
    /\ act_result = ""
    /\ wf_invoked = [i \in 1..NumActivities |-> 0]
    /\ wf_succeeded = {}
    /\ wf_error = ""
    /\ progress = InitProgress
    /\ DbIdle
    /\ DirectIdle
    /\ TogglIdle
    /\ FiberyIdle
    /\ ParserIdle
    /\ StatsIdle

SpecWF == InitWF /\ [][WfNext]_vars

(***************************************************************************)
(* Part I: rolling window.  The local state of the call is a record.       *)
(***************************************************************************)

\* task = asyncio.create_task(process_fn(entity)); running[task] = entity
\* applied to the head of the deque (remaining.popleft()).
CreateTask(st) ==
    LET e == Head(st.remaining)
        t == Len(st.taskEntity) + 1
    IN  [st EXCEPT !.remaining = Tail(@),
                   !.running = @ \cup {t},
                   !.taskEntity = Append(@, e),
                   !.taskState = Append(@, "pending"),
                   !.startCount[e] = @ + 1]

\* while len(running) < max_concurrent and remaining: start one
RECURSIVE InitialBatchMutantOffByOne(_, _)
InitialBatchMutantOffByOne(st, mc) ==
    IF Cardinality(st.running) <= mc /\ st.remaining # <<>>
    THEN InitialBatchMutantOffByOne(CreateTask(st), mc)
    ELSE st

RECURSIVE InitialBatch(_, _)
InitialBatch(st, mc) ==
    IF Cardinality(st.running) < mc /\ st.remaining # <<>>
    THEN InitialBatch(CreateTask(st), mc)
    ELSE st

\* if remaining: start the next one
StartNextMutantSkip(st) == st

StartNext(st) == IF st.remaining # <<>> THEN CreateTask(st) ELSE st

\* for completed_task in done: pop, collect the result or raise, start next.
\* order is the iteration order of the done set; a raise leaves the loop.
RECURSIVE ProcessDone(_, _)
ProcessDone(order, st) ==
    IF order = <<>> THEN st
    ELSE LET t == Head(order)
             e == st.taskEntity[t]
             popped == [st EXCEPT !.running = @ \ {t}]
         IN  IF st.taskState[t] = "ok"
             THEN ProcessDone(Tail(order),
                              StartNext([popped EXCEPT !.results = Append(@, e)]))
             ELSE [popped EXCEPT !.error = e]

RWLocal ==
    [remaining |-> remaining, running |-> running, results |-> results,
     error |-> rw_error, taskEntity |-> taskEntity, taskState |-> taskState,
     startCount |-> startCount]

RWStore(st, pc) ==
    /\ rw_pc' = pc
    /\ remaining' = st.remaining
    /\ running' = st.running
    /\ results' = st.results
    /\ rw_error' = st.error
    /\ taskEntity' = st.taskEntity
    /\ taskState' = st.taskState
    /\ startCount' = st.startCount
    /\ UNCHANGED <<entities, max_concurrent, files, storeVars, wfVars, extVars>>

\* Entry of the call up to the first await: the empty-input return, the
\* deque, the initial batch.
RWStart ==
    /\ rw_pc = "start"
    /\ IF entities = <<>>
       THEN RWStore(RWLocal, "returned")
       ELSE RWStore(InitialBatch([RWLocal EXCEPT !.remaining = entities],
                                 max_concurrent), "wait")

\* The event loop runs a created task to its end (normally or with an
\* exception).  Tasks run while the call is suspended in asyncio.wait; they
\* are never cancelled, so they also run on after the call has raised.
TaskFinish(t, outcome) ==
    /\ rw_pc \in {"wait", "raised"}
    /\ t \in 1..Len(taskState)
    /\ taskState[t] = "pending"
    /\ taskState' = [taskState EXCEPT ![t] = outcome]
    /\ UNCHANGED <<rw_pc, entities, max_concurrent, remaining, running,
                   results, rw_error, taskEntity, startCount,
                   files, storeVars, wfVars, extVars>>

\* asyncio.wait(..., FIRST_COMPLETED) returns with every task that is done
\* by then; the for loop runs without suspension; then `while running`.
WaitReturns ==
    /\ rw_pc = "wait"
    /\ LET done == {t \in running : taskState[t] # "pending"}
       IN  /\ done # {}
           /\ \E order \in Orders(done) :
                LET st == ProcessDone(order, RWLocal)
                IN  RWStore(st, IF st.error # 0 THEN "raised"
                                ELSE IF st.running = {} THEN "returned"
                                ELSE "wait")

RWNext ==
    \/ RWStart
    \/ \E t \in 1..MaxItems, o \in {"ok", "failed"} : TaskFinish(t, o)
    \/ WaitReturns

\* State before a call of process_with_rolling_window on a list of up to
\* MaxItems items; the stores are empty and no workflow has been started.
InitRW ==
    /\ MoreIdle
    /\ rw_pc = "start"
    /\ \E n \in 0..MaxItems : entities = [i \in 1..n |-> i]
    /\ max_concurrent \in 1..MaxConc
    /\ remaining = <<>>
    /\ running = {}
    /\ results = <<>>
    /\ rw_error = 0
    /\ taskEntity = <<>>
    /\ taskState = <<>>
    /\ startCount = [i \in 1..Len(entities) |-> 0]
    /\ files = [r \in Runs |-> [f \in FileNames |-> 0]]
    /\ meta = [r \in Runs |-> NoMeta]
    /\ db_runs = [r \in Runs |-> NoRow]
    /\ wf_state = "none"
    /\ wf_attempt = 0
    /\ wf_input = [run_id |-> "r1", start_from |-> "toggl", users |-> {}]
    /\ wf_act = 0
    /\ act_result = ""
    /\ wf_invoked = [i \in 1..NumActivities |-> 0]
    /\ wf_succeeded = {}
    /\ wf_error = ""
    /\ progress = InitProgress
    /\ DbIdle
    /\ DirectIdle
    /\ TogglIdle
    /\ FiberyIdle
    /\ ParserIdle
    /\ StatsIdle

SpecRW == InitRW /\ [][RWNext]_vars

(***************************************************************************)
(* Store operations as callable by any client of the two stores.           *)
(***************************************************************************)
StoreNext ==
    \/ \E r \in Runs : SaveRunMetadata(r)
    \/ \E r \in Runs, s \in RunStatus, e \in ErrorTexts : UpdateRunStatus(r, s, e)
    \/ \E r \in Runs : DbCreateRun(r)
    \/ \E r \in Runs, s \in RunStatus, n \in TotalEntries : DbUpdateRunStatus(r, s, n)

\* Empty stores: no run directory content, no metadata, no runs row.
InitStore ==
    /\ MoreIdle
    /\ rw_pc = "start"
    /\ entities = <<>>
    /\ max_concurrent = 1
    /\ remaining = <<>>
    /\ running = {}
    /\ results = <<>>
    /\ rw_error = 0
    /\ taskEntity = <<>>
    /\ taskState = <<>>
    /\ startCount = <<>>
    /\ files = [r \in Runs |-> [f \in FileNames |-> 0]]
    /\ meta = [r \in Runs |-> NoMeta]
    /\ db_runs = [r \in Runs |-> NoRow]
    /\ wf_state = "none"
    /\ wf_attempt = 0
    /\ wf_input = [run_id |-> "r1", start_from |-> "toggl", users |-> {}]
    /\ wf_act = 0
    /\ act_result = ""
    /\ wf_invoked = [i \in 1..NumActivities |-> 0]
    /\ wf_succeeded = {}
    /\ wf_error = ""
    /\ progress = InitProgress
    /\ DbIdle
    /\ DirectIdle
    /\ TogglIdle
    /\ FiberyIdle
    /\ ParserIdle
    /\ StatsIdle

SpecStore == InitStore /\ [][StoreNext]_vars

(***************************************************************************)
(* The run-metadata operations of JSONStorage issued by one writer.        *)
(***************************************************************************)
MetaNext ==
    \/ \E r \in Runs : SaveRunMetadata(r)
    \/ \E r \in Runs, s \in RunStatus, e \in ErrorTexts : UpdateRunStatus(r, s, e)
    \/ \E r \in Runs, st \in StageType : AddCompletedStage(r, st)
    \/ \E r \in Runs, st \in StageType : AddFailedStage(r, st)

\* No run directory holds a run_metadata.json yet.
InitMeta ==
    /\ MoreIdle
    /\ rw_pc = "start"
    /\ entities = <<>>
    /\ max_concurrent = 1
    /\ remaining = <<>>
    /\ running = {}
    /\ results = <<>>
    /\ rw_error = 0
    /\ taskEntity = <<>>
    /\ taskState = <<>>
    /\ startCount = <<>>
    /\ files = [r \in Runs |-> [f \in FileNames |-> 0]]
    /\ meta = [r \in Runs |-> NoMeta]
    /\ db_runs = [r \in Runs |-> NoRow]
    /\ wf_state = "none"
    /\ wf_attempt = 0
    /\ wf_input = [run_id |-> "r1", start_from |-> "toggl", users |-> {}]
    /\ wf_act = 0
    /\ act_result = ""
    /\ wf_invoked = [i \in 1..NumActivities |-> 0]
    /\ wf_succeeded = {}
    /\ wf_error = ""
    /\ progress = InitProgress
    /\ DbIdle
    /\ DirectIdle
    /\ TogglIdle
    /\ FiberyIdle
    /\ ParserIdle
    /\ StatsIdle

SpecMeta == InitMeta /\ [][MetaNext]_vars

(***************************************************************************)
(* Part IV: toggl_time_entries and processed_time_entries (db.py).         *)
(***************************************************************************)
MaxUpserts == 3
MaxBatch == 2

\* What an entry carries besides its id: duration, and description standing
\* for the ten other columns taken from the entry.
Payloads ==
    {[duration |-> 10, description |-> "d"],
     [duration |-> 20, description |-> "d #7"]}

\* The dictionaries passed to upsert_time_entries.
TogglEntries ==
    {[id |-> i, duration |-> p.duration, description |-> p.description] :
        i \in EntryIds, p \in Payloads}

\* Lists of at most MaxBatch elements of S.
Batches(S) == UNION {[1..n -> S] : n \in 0..MaxBatch}

\* One INSERT ... ON CONFLICT(toggl_id) DO UPDATE SET <every column> =
\* excluded.<column>
UpsertTimeEntryMutantKeepsRun(T, run_id, entry, now) ==
    LET conflict == {row \in T : row.toggl_id = entry.id}
    IN  IF conflict = {}
        THEN T \cup {[toggl_id |-> entry.id, run_id |-> run_id,
                      duration |-> entry.duration,
                      description |-> entry.description, updated_at |-> now]}
        ELSE (T \ conflict) \cup
             {[row EXCEPT !.duration = entry.duration,
                          !.description = entry.description,
                          !.updated_at = now] : row \in conflict}

UpsertTimeEntry(T, run_id, entry, now) ==
    LET conflict == {row \in T : row.toggl_id = entry.id}
    IN  IF conflict = {}
        THEN T \cup {[toggl_id |-> entry.id, run_id |-> run_id,
                      duration |-> entry.duration,
                      description |-> entry.description, updated_at |-> now]}
        ELSE (T \ conflict) \cup
             {[row EXCEPT !.run_id = run_id,
                          !.duration = entry.duration,
                          !.description = entry.description,
                          !.updated_at = now] : row \in conflict}

\* Database.upsert_time_entries: the for loop over the entries, then commit
RECURSIVE upsert_time_entries(_, _, _, _)
upsert_time_entries(T, run_id, entries, now) ==
    IF entries = <<>> THEN T
    ELSE upsert_time_entries(UpsertTimeEntry(T, run_id, Head(entries), now),
                             run_id, Tail(entries), now)

\* What a call passed for entry id i: its last element with that id.
LastWithId(entries, i) ==
    LET ks == {k \in 1..Len(entries) : entries[k].id = i}
    IN  entries[CHOOSE k \in ks : \A j \in ks : j <= k]

RecordTimeEntries(last, run_id, entries, now) ==
    [i \in EntryIds |->
       IF \E k \in 1..Len(entries) : entries[k].id = i
       THEN [run_id |-> run_id, duration |-> LastWithId(entries, i).duration,
             description |-> LastWithId(entries, i).description,
             updated_at |-> now, calls |-> last[i].calls + 1]
       ELSE last[i]]

UpsertTimeEntries(run_id, entries) ==
    /\ te_clock < MaxUpserts
    /\ te_clock' = te_clock + 1
    /\ time_entries' = upsert_time_entries(time_entries, run_id, entries, te_clock + 1)
    /\ te_last' = RecordTimeEntries(te_last, run_id, entries, te_clock + 1)
    /\ UNCHANGED <<processed, pe_clock, pe_last, pe_not_null, pe_raised>>
    /\ UNCHANGED <<coreVars, dpVars, laterVars>>

CoreIdle ==
    /\ rw_pc = "start"
    /\ entities = <<>>
    /\ max_concurrent = 1
    /\ remaining = <<>>
    /\ running = {}
    /\ results = <<>>
    /\ rw_error = 0
    /\ taskEntity = <<>>
    /\ taskState = <<>>
    /\ startCount = <<>>
    /\ files = [r \in Runs |-> [f \in FileNames |-> 0]]
    /\ meta = [r \in Runs |-> NoMeta]
    /\ db_runs = [r \in Runs |-> NoRow]
    /\ wf_state = "none"
    /\ wf_attempt = 0
    /\ wf_input = [run_id |-> "r1", start_from |-> "toggl", users |-> {}]
    /\ wf_act = 0
    /\ act_result = ""
    /\ wf_invoked = [i \in 1..NumActivities |-> 0]
    /\ wf_succeeded = {}
    /\ wf_error = ""
    /\ progress = InitProgress

\* total_duration and entry_count of an aggregated entry
Measures ==
    {[total_duration |-> 10, entry_count |-> 1],
     [total_duration |-> 20, entry_count |-> 2]}

\* The dictionaries passed to upsert_processed_entries (process_entries).
ProcessedEntries ==
    {[user_email |-> "u1", description_clean |-> "d",
      entity_id |-> k.entity_id, entity_database |-> k.entity_database,
      entity_type |-> k.entity_type, project |-> k.project,
      is_matched |-> k.is_matched,
      total_duration |-> m.total_duration, entry_count |-> m.entry_count] :
        k \in ParsedKinds, m \in Measures}

ProcessedRow(run_id, entry) ==
    [run_id |-> run_id, user_email |-> entry.user_email,
     description_clean |-> entry.description_clean,
     entity_id |-> entry.entity_id, entity_database |-> entry.entity_database,
     entity_type |-> entry.entity_type, project |-> entry.project,
     is_matched |-> entry.is_matched,
     total_duration |-> entry.total_duration, entry_count |-> entry.entry_count]

KeyOf(row) == [c \in KeyColumns |-> row[c]]

\* SQLite uniqueness over the conflict target: two rows collide when every
\* key column is equal and none is NULL (NULLs are distinct from each other).
SqlConflict(row, new) == \A c \in KeyColumns : row[c] # Null /\ row[c] = new[c]

AddRow(T, row) ==
    IF row \in DOMAIN T THEN [T EXCEPT ![row] = @ + 1] ELSE T @@ (row :> 1)

RemoveRow(T, row) == [r \in DOMAIN T \ {row} |-> T[r]]

\* One INSERT ... ON CONFLICT(<key columns>) DO UPDATE SET total_duration,
\* entry_count, updated_at.  st is the table and whether a statement raised.
UpsertProcessedEntry(st, run_id, entry, not_null) ==
    LET new == ProcessedRow(run_id, entry)
        conflict == {row \in DOMAIN st.table : SqlConflict(row, new)}
    IN  IF st.raised THEN st
        ELSE IF not_null /\ \E c \in KeyColumns : new[c] = Null
        THEN [st EXCEPT !.raised = TRUE]
        ELSE IF conflict = {}
        THEN [st EXCEPT !.table = AddRow(@, new)]
        ELSE LET old == CHOOSE row \in conflict : TRUE
             IN  [st EXCEPT !.table =
                    AddRow(RemoveRow(@, old),
                           [old EXCEPT !.total_duration = new.total_duration,
                                       !.entry_count = new.entry_count])]

\* Database.upsert_processed_entries: the for loop over the entries
RECURSIVE upsert_processed_entries(_, _, _, _)
upsert_processed_entries(st, run_id, entries, not_null) ==
    IF entries = <<>> THEN st
    ELSE upsert_processed_entries(
             UpsertProcessedEntry(st, run_id, Head(entries), not_null),
             run_id, Tail(entries), not_null)

\* What a call passed for key k: its last element with that key.
LastWithKey(run_id, entries, k) ==
    LET ks == {i \in 1..Len(entries) : KeyOf(ProcessedRow(run_id, entries[i])) = k}
    IN  entries[CHOOSE i \in ks : \A j \in ks : j <= i]

RecordProcessedEntries(last, run_id, entries) ==
    [k \in ProcessedKeys |->
       IF \E i \in 1..Len(entries) : KeyOf(ProcessedRow(run_id, entries[i])) = k
       THEN [total_duration |-> LastWithKey(run_id, entries, k).total_duration,
             entry_count |-> LastWithKey(run_id, entries, k).entry_count]
       ELSE last[k]]

\* The call commits after the loop; a statement that raises ends the call
\* (and the process) before the commit, so the table keeps its rows.
UpsertProcessedEntries(run_id, entries) ==
    /\ pe_clock < MaxUpserts
    /\ pe_clock' = pe_clock + 1
    /\ LET st == upsert_processed_entries([table |-> processed, raised |-> FALSE],
                                          run_id, entries, pe_not_null)
       IN  /\ processed' = IF st.raised THEN processed ELSE st.table
           /\ pe_raised' = st.raised
    /\ pe_last' = RecordProcessedEntries(pe_last, run_id, entries)
    /\ UNCHANGED <<time_entries, te_clock, te_last, pe_not_null>>
    /\ UNCHANGED <<coreVars, dpVars, laterVars>>

ProcessedCacheNext ==
    \E run_id \in Runs, entries \in Batches(ProcessedEntries) :
        UpsertProcessedEntries(run_id, entries)

\* A new database file whose schema, not part of the sources, either allows
\* NULL in the key columns of processed_time_entries or forbids it.
InitProcessedCache ==
    /\ MoreIdle
    /\ CoreIdle
    /\ time_entries = {}
    /\ te_clock = 0
    /\ te_last = [i \in EntryIds |-> NoEntry]
    /\ processed = EmptyTable
    /\ pe_clock = 0
    /\ pe_last = [k \in ProcessedKeys |-> NoMeasure]
    /\ pe_not_null \in BOOLEAN
    /\ pe_raised = FALSE
    /\ DirectIdle
    /\ TogglIdle
    /\ FiberyIdle
    /\ ParserIdle
    /\ StatsIdle

SpecProcessedCache == InitProcessedCache /\ [][ProcessedCacheNext]_vars

RawCacheNext ==
    \E run_id \in Runs, entries \in Batches(TogglEntries) :
        UpsertTimeEntries(run_id, entries)

\* A new database file: no rows.
InitRawCache ==
    /\ MoreIdle
    /\ CoreIdle
    /\ DbIdle
    /\ DirectIdle
    /\ TogglIdle
    /\ FiberyIdle
    /\ ParserIdle
    /\ StatsIdle

SpecRawCache == InitRawCache /\ [][RawCacheNext]_vars

(***************************************************************************)
(* Part V: the direct pipeline, run_report_generation (main.py).           *)
(***************************************************************************)
\* FiberyParser.parse on the two descriptions of the model: "d" has no
\* entity id, "d #7" has one and no tags; both clean to "d".
ParsedKindOf(description) ==
    IF description = "d #7"
    THEN [entity_id |-> "7", entity_database |-> Null, entity_type |-> Null,
          project |-> Null, is_matched |-> TRUE]
    ELSE [entity_id |-> Null, entity_database |-> Null, entity_type |-> Null,
          project |-> Null, is_matched |-> FALSE]

RECURSIVE SumDurations(_, _)
SumDurations(raw, description) ==
    IF raw = <<>> THEN 0
    ELSE (IF Head(raw).description = description THEN Head(raw).duration ELSE 0)
         + SumDurations(Tail(raw), description)

\* process_entries: one aggregated entry per (user, parsed description), in
\* the order in which the groups first occur.
process_entries(raw) ==
    LET ds == {raw[i].description : i \in 1..Len(raw)}
        first(d) == CHOOSE i \in 1..Len(raw) :
                      /\ raw[i].description = d
                      /\ \A j \in 1..(i - 1) : raw[j].description # d
        order == CHOOSE o \in Orders(ds) :
                   \A i, j \in 1..Len(o) : i < j => first(o[i]) < first(o[j])
    IN  [n \in 1..Cardinality(ds) |->
           [user_email |-> "u1", description_clean |-> "d",
            entity_id |-> ParsedKindOf(order[n]).entity_id,
            entity_database |-> ParsedKindOf(order[n]).entity_database,
            entity_type |-> ParsedKindOf(order[n]).entity_type,
            project |-> ParsedKindOf(order[n]).project,
            is_matched |-> ParsedKindOf(order[n]).is_matched,
            total_duration |-> SumDurations(raw, order[n]),
            entry_count |-> Cardinality({i \in 1..Len(raw) :
                                           raw[i].description = order[n]})]]

\* Database.get_time_entries_by_run: the rows of one run, as entries.
get_time_entries_by_run(T, run_id) ==
    LET rows == {row \in T : row.run_id = run_id}
        order == CHOOSE o \in Orders(rows) : TRUE
    IN  [n \in 1..Cardinality(rows) |->
           [id |-> order[n].toggl_id, duration |-> order[n].duration,
            description |-> order[n].description]]

\* kill_previous_runs, the new run id (timestamp and uuid4: an id that no
\* earlier run has), Database.create_run.
DirectStart(run_id, use_cache) ==
    /\ dp_pc \in {"idle", "done", "crashed"}
    /\ db_runs[run_id] = NoRow
    /\ db_runs' = [db_runs EXCEPT ![run_id] =
                     [status |-> "in_progress", total_entries |-> -1]]
    /\ dp_pc' = "created"
    /\ dp_run' = run_id
    /\ dp_use_cache' = use_cache
    /\ dp_toggl_requests' = 0
    /\ dp_raw' = <<>>
    /\ dp_reports' = FALSE
    /\ UNCHANGED <<rwVars, files, meta, wfVars, dbVars, laterVars>>

\* if use_cache: load the rows cached under this run id, or mark the run
\* failed and return.
DirectLoadCache ==
    /\ dp_pc = "created"
    /\ dp_use_cache
    /\ LET raw_entries == get_time_entries_by_run(time_entries, dp_run)
       IN  IF raw_entries = <<>>
           THEN /\ db_runs' = [db_runs EXCEPT ![dp_run].status = "failed"]
                /\ dp_pc' = "done"
                /\ UNCHANGED dp_raw
           ELSE /\ dp_raw' = raw_entries
                /\ dp_pc' = "loaded"
                /\ UNCHANGED db_runs
    /\ UNCHANGED <<dp_run, dp_use_cache, dp_toggl_requests, dp_reports>>
    /\ UNCHANGED <<rwVars, files, meta, wfVars, dbVars, laterVars>>

\* else: fetch from Toggl; nothing fetched ends the run completed with 0
\* entries, otherwise the entries are cached under this run id.
DirectFetch(entries) ==
    /\ dp_pc = "created"
    /\ ~dp_use_cache
    /\ dp_toggl_requests' = dp_toggl_requests + 1
    /\ IF entries = <<>>
       THEN /\ db_runs' = [db_runs EXCEPT ![dp_run] =
                             [status |-> "completed", total_entries |-> 0]]
            /\ dp_pc' = "done"
            /\ UNCHANGED <<dp_raw, time_entries, te_clock, te_last>>
       ELSE /\ time_entries' = upsert_time_entries(time_entries, dp_run, entries,
                                                   te_clock + 1)
            /\ te_clock' = te_clock + 1
            /\ te_last' = RecordTimeEntries(te_last, dp_run, entries, te_clock + 1)
            /\ dp_raw' = entries
            /\ dp_pc' = "loaded"
            /\ UNCHANGED db_runs
    /\ UNCHANGED <<dp_run, dp_use_cache, dp_reports>>
    /\ UNCHANGED <<processed, pe_clock, pe_last, pe_not_null, pe_raised>>
    /\ UNCHANGED <<rwVars, files, meta, wfVars, laterVars>>

\* get_time_entries raises (TogglClient._make_request gave up): nothing in
\* run_report_generation catches it, the run row stays in_progress.
DirectFetchRaises ==
    /\ dp_pc = "created"
    /\ ~dp_use_cache
    /\ dp_toggl_requests' = dp_toggl_requests + 1
    /\ dp_pc' = "crashed"
    /\ UNCHANGED <<dp_run, dp_use_cache, dp_raw, dp_reports>>
    /\ UNCHANGED <<rwVars, files, storeVars, wfVars, dbVars, laterVars>>

\* process_entries, upsert_processed_entries, the reports, and
\* update_run_status(run_id, 'completed', len(raw_entries)).
DirectFinish ==
    /\ dp_pc = "loaded"
    /\ LET st == upsert_processed_entries([table |-> processed, raised |-> FALSE],
                                          dp_run, process_entries(dp_raw),
                                          pe_not_null)
       IN  /\ pe_raised' = st.raised
           /\ IF st.raised
              THEN /\ dp_pc' = "crashed"
                   /\ UNCHANGED <<processed, db_runs, dp_reports>>
              ELSE /\ processed' = st.table
                   /\ dp_reports' = TRUE
                   /\ db_runs' = [db_runs EXCEPT ![dp_run] =
                                    [status |-> "completed",
                                     total_entries |-> Len(dp_raw)]]
                   /\ dp_pc' = "done"
    /\ pe_clock' = pe_clock + 1
    /\ pe_last' = RecordProcessedEntries(pe_last, dp_run, process_entries(dp_raw))
    /\ UNCHANGED <<dp_run, dp_use_cache, dp_toggl_requests, dp_raw>>
    /\ UNCHANGED <<time_entries, te_clock, te_last, pe_not_null>>
    /\ UNCHANGED <<rwVars, files, meta, wfVars, laterVars>>

\* An error while the reports are generated ends the process.
DirectCrash ==
    /\ dp_pc = "loaded"
    /\ dp_pc' = "crashed"
    /\ UNCHANGED <<dp_run, dp_use_cache, dp_toggl_requests, dp_raw, dp_reports>>
    /\ UNCHANGED <<rwVars, files, storeVars, wfVars, dbVars, laterVars>>

DirectNext ==
    \/ \E run_id \in Runs, use_cache \in BOOLEAN : DirectStart(run_id, use_cache)
    \/ DirectLoadCache
    \/ \E entries \in Batches(TogglEntries) : DirectFetch(entries)
    \/ DirectFetchRaises
    \/ DirectFinish
    \/ DirectCrash

\* A new database file and no run yet.
InitDirect ==
    /\ MoreIdle
    /\ CoreIdle
    /\ DbIdle
    /\ DirectIdle
    /\ TogglIdle
    /\ FiberyIdle
    /\ ParserIdle
    /\ StatsIdle

SpecDirect == InitDirect /\ [][DirectNext]_vars

(***************************************************************************)
(* Part VI: TogglClient (toggl/client.py).                                 *)
(***************************************************************************)
MaxRetries == 3
MaxPages == 2

\* Dates of 2025 around the end of February, as month and day.
Dates == {[m |-> 2, d |-> 27], [m |-> 2, d |-> 28], [m |-> 3, d |-> 1],
          [m |-> 3, d |-> 2]}

\* datetime.strptime(date, "%Y-%m-%d"): the day number within 2025, counted
\* from the last day of January.
strptime(date) == IF date.m = 2 THEN date.d ELSE 28 + date.d

\* current.strftime("%Y-%m-%d")
strftime(day) == IF day <= 28 THEN [m |-> 2, d |-> day] ELSE [m |-> 3, d |-> day - 28]

\* What a requests.post call can meet: HTTP 200, the rate-limit statuses
\* 402 and 429, an error status, a status that is neither 200 nor an error,
\* or a requests.exceptions.RequestException.
TogglOutcomes == {"200", "402", "429", "500", "204", "exception"}

\* backoff *= 2
NextBackoffMutantLinear(backoff) == backoff + 60

NextBackoff(backoff) == backoff * 2

\* Entry of _make_request: url, backoff = 60, then the for loop over
\* range(max_retries); with no attempt left it raises "Max retries exceeded".
MakeRequestStart ==
    /\ tg_attempt' = 0
    /\ tg_backoff' = 60
    /\ tg_sent' = 0
    /\ tg_waits' = <<>>
    /\ tg_statuses' = <<>>
    /\ tg_pc' = IF tg_max_retries = 0 THEN "raised" ELSE "attempt"

\* while current <= end
LoopTestMutantStrict(current, end) == current < strptime(end)

LoopTest(current, end) == current <= strptime(end)

\* get_time_entries up to its first request: parse the dates, current =
\* start, then the loop.
TgStart ==
    /\ tg_pc = "start"
    /\ tg_current' = strptime(tg_start)
    /\ tg_pc' = "loop"
    /\ UNCHANGED <<tg_max_retries, tg_start, tg_end, tg_days, tg_day_results,
                   tg_all_entries, tg_day_entries, tg_page, tg_attempt,
                   tg_backoff, tg_sent, tg_waits, tg_statuses>>
    /\ UNCHANGED <<coreVars, dbVars, dpVars, fiberyVars, parserVars, statsVars, moreVars>>

\* The while test; inside, _fetch_day(day_str) up to its first request;
\* after the loop, return all_entries.
TgLoop ==
    /\ tg_pc = "loop"
    /\ IF LoopTest(tg_current, tg_end)
       THEN /\ tg_days' = Append(tg_days, strftime(tg_current))
            /\ tg_day_entries' = <<>>
            /\ tg_page' = 1
            /\ MakeRequestStart
       ELSE /\ tg_pc' = "returned"
            /\ UNCHANGED <<tg_days, tg_day_entries, tg_page, tg_attempt,
                           tg_backoff, tg_sent, tg_waits, tg_statuses>>
    /\ UNCHANGED <<tg_max_retries, tg_start, tg_end, tg_current,
                   tg_day_results, tg_all_entries>>
    /\ UNCHANGED <<coreVars, dbVars, dpVars, fiberyVars, parserVars, statsVars, moreVars>>

\* One pass of the for loop of _make_request: the request and what follows
\* its outcome.  An exception leaving _make_request leaves _fetch_day and
\* get_time_entries as well.
TgAttempt(outcome) ==
    /\ tg_pc = "attempt"
    /\ tg_sent' = tg_sent + 1
    /\ tg_statuses' = Append(tg_statuses, outcome)
    /\ IF outcome = "200"
       THEN /\ tg_pc' = "responded"
            /\ UNCHANGED <<tg_attempt, tg_backoff, tg_waits>>
       ELSE IF outcome \in {"402", "429"}
       THEN /\ tg_waits' = Append(tg_waits, tg_backoff)
            /\ tg_backoff' = NextBackoff(tg_backoff)
            /\ tg_attempt' = tg_attempt + 1
            /\ tg_pc' = IF tg_attempt + 1 < tg_max_retries THEN "attempt" ELSE "raised"
       ELSE IF tg_attempt < tg_max_retries - 1
       THEN /\ tg_waits' = Append(tg_waits, tg_backoff)
            /\ tg_backoff' = NextBackoff(tg_backoff)
            /\ tg_attempt' = tg_attempt + 1
            /\ tg_pc' = "attempt"
       ELSE /\ tg_pc' = "raised"
            /\ UNCHANGED <<tg_attempt, tg_backoff, tg_waits>>
    /\ UNCHANGED <<tg_max_retries, tg_start, tg_end, tg_current, tg_days,
                   tg_day_results, tg_all_entries, tg_day_entries, tg_page>>
    /\ UNCHANGED <<coreVars, dbVars, dpVars, fiberyVars, parserVars, statsVars, moreVars>>

\* The entry carried by page p of a day.
PageEntry(day, p) == [day |-> day, page |-> p]

\* _fetch_day after _make_request has returned a response: an empty page
\* ends the day; otherwise its entries are unpacked, and the pagination
\* headers decide between another page and the end of the day.  At the end
\* of the day get_time_entries extends all_entries and moves to the next day.
TgPage(has_data, more) ==
    /\ tg_pc = "responded"
    /\ LET data == IF has_data
                   THEN <<PageEntry(strftime(tg_current), tg_page)>>
                   ELSE <<>>
           entries == tg_day_entries \o data
       IN  IF data # <<>> /\ more
           THEN /\ tg_page < MaxPages
                /\ tg_day_entries' = entries
                /\ tg_page' = tg_page + 1
                /\ MakeRequestStart
                /\ UNCHANGED <<tg_current, tg_day_results, tg_all_entries>>
           ELSE /\ tg_day_results' = Append(tg_day_results, entries)
                /\ tg_all_entries' = tg_all_entries \o entries
                /\ tg_current' = tg_current + 1
                /\ tg_pc' = "loop"
                /\ UNCHANGED <<tg_day_entries, tg_page, tg_attempt, tg_backoff,
                               tg_sent, tg_waits, tg_statuses>>
    /\ UNCHANGED <<tg_max_retries, tg_start, tg_end, tg_days>>
    /\ UNCHANGED <<coreVars, dbVars, dpVars, fiberyVars, parserVars, statsVars, moreVars>>

TogglNext ==
    \/ TgStart
    \/ TgLoop
    \/ \E outcome \in TogglOutcomes : TgAttempt(outcome)
    \/ \E has_data \in BOOLEAN, more \in BOOLEAN : TgPage(has_data, more)

\* A client built with max_retries, about to run get_time_entries on two
\* dates.
InitToggl ==
    /\ MoreIdle
    /\ CoreIdle
    /\ DbIdle
    /\ DirectIdle
    /\ tg_pc = "start"
    /\ tg_max_retries \in 0..MaxRetries
    /\ tg_start \in Dates
    /\ tg_end \in Dates
    /\ tg_current = 0
    /\ tg_days = <<>>
    /\ tg_day_results = <<>>
    /\ tg_all_entries = <<>>
    /\ tg_day_entries = <<>>
    /\ tg_page = 0
    /\ tg_attempt = 0
    /\ tg_backoff = 0
    /\ tg_sent = 0
    /\ tg_waits = <<>>
    /\ tg_statuses = <<>>
    /\ FiberyIdle
    /\ ParserIdle
    /\ StatsIdle

SpecToggl == InitToggl /\ [][TogglNext]_vars

(***************************************************************************)
(* Part VII: FiberyClient (fibery/client.py).  Time is in whole seconds;   *)
(* a request takes no time and a sleep takes exactly the time asked for.   *)
(***************************************************************************)
MaxFiberyRetries == 7
MaxRpm == 2
MaxFiberyCalls == 2

\* Seconds the caller lets pass before a call.
CallerDelays == {0, 60}

\* What a requests.request call can meet: HTTP 200, a client-error status,
\* 429, a 5xx status, requests.exceptions.Timeout, or another
\* requests.exceptions.RequestException.
FiberyOutcomes == {"200", "404", "429", "500", "timeout", "exception"}

RECURSIVE TwoToThe(_)
TwoToThe(n) == IF n = 0 THEN 1 ELSE 2 * TwoToThe(n - 1)

\* The sleep before the retry: min(2 ** attempt, 60) after 429 and 5xx,
\* 2 ** attempt after a timeout or a transport error.
RetryWaitMutantUncapped(outcome, attempt) == TwoToThe(attempt)

RetryWait(outcome, attempt) ==
    IF outcome \in {"429", "500"} THEN Min(TwoToThe(attempt), 60)
    ELSE TwoToThe(attempt)

\* while self.request_times and self.request_times[0] < now - 60: popleft()
RECURSIVE DropOld(_, _)
DropOld(times, now) ==
    IF times # <<>> /\ Head(times) < now - 60 THEN DropOld(Tail(times), now)
    ELSE times

\* _wait_if_rate_limited: the time slept, computed from the pruned deque
LimiterSleep(times, now, max_rpm) ==
    IF Len(times) >= max_rpm /\ 60 - (now - Head(times)) > 0
    THEN 60 - (now - Head(times))
    ELSE 0

\* graphql_query / rest_query -> _make_request: _wait_if_rate_limited (which
\* appends the time read before its sleep), then the for loop up to the
\* first request; with max_retries = 0 the loop is empty and the call
\* returns None.
FbCall(delay) ==
    /\ fb_pc = "idle"
    /\ fb_calls < MaxFiberyCalls
    /\ fb_calls' = fb_calls + 1
    /\ LET now == fb_now + delay
           times == DropOld(fb_request_times, now)
       IN  /\ fb_request_times' = Append(times, now)
           /\ fb_now' = now + LimiterSleep(times, now, fb_max_rpm)
    /\ fb_attempt' = 0
    /\ fb_sent' = 0
    /\ fb_last' = ""
    /\ fb_last_wait' = 0
    /\ IF fb_max_retries = 0
       THEN fb_pc' = "idle" /\ fb_result' = "absent"
       ELSE fb_pc' = "attempt" /\ fb_result' = ""
    /\ UNCHANGED <<fb_max_retries, fb_max_rpm, fb_send_times>>
    /\ UNCHANGED <<coreVars, dbVars, dpVars, togglVars, parserVars, statsVars, moreVars>>

\* One pass of the for loop: the request and what follows its outcome.
FbAttempt(outcome) ==
    /\ fb_pc = "attempt"
    /\ fb_sent' = fb_sent + 1
    /\ fb_send_times' = Append(fb_send_times, fb_now)
    /\ fb_last' = outcome
    /\ IF outcome = "200"
       THEN /\ fb_result' = "body"
            /\ fb_pc' = "idle"
            /\ UNCHANGED <<fb_now, fb_attempt, fb_last_wait>>
       ELSE IF outcome = "404"
       THEN /\ fb_result' = "absent"
            /\ fb_pc' = "idle"
            /\ UNCHANGED <<fb_now, fb_attempt, fb_last_wait>>
       ELSE IF outcome \in {"429", "500"}
       THEN /\ fb_last_wait' = RetryWait(outcome, fb_attempt)
            /\ fb_now' = fb_now + RetryWait(outcome, fb_attempt)
            /\ fb_attempt' = fb_attempt + 1
            /\ IF fb_attempt + 1 < fb_max_retries
               THEN fb_pc' = "attempt" /\ fb_result' = ""
               ELSE fb_pc' = "idle" /\ fb_result' = "absent"
       ELSE IF fb_attempt < fb_max_retries - 1
       THEN /\ fb_last_wait' = RetryWait(outcome, fb_attempt)
            /\ fb_now' = fb_now + RetryWait(outcome, fb_attempt)
            /\ fb_attempt' = fb_attempt + 1
            /\ fb_pc' = "attempt"
            /\ fb_result' = ""
       ELSE /\ fb_result' = "absent"
            /\ fb_pc' = "idle"
            /\ fb_last_wait' = 0
            /\ UNCHANGED <<fb_now, fb_attempt>>
    /\ UNCHANGED <<fb_max_retries, fb_max_rpm, fb_request_times, fb_calls>>
    /\ UNCHANGED <<coreVars, dbVars, dpVars, togglVars, parserVars, statsVars, moreVars>>

FiberyNext ==
    \/ \E delay \in CallerDelays : FbCall(delay)
    \/ \E outcome \in FiberyOutcomes : FbAttempt(outcome)

\* A client built with max_retries and max_requests_per_minute.
InitFibery ==
    /\ MoreIdle
    /\ CoreIdle
    /\ DbIdle
    /\ DirectIdle
    /\ TogglIdle
    /\ fb_pc = "idle"
    /\ fb_max_retries \in {0, 1, 2, MaxFiberyRetries}
    /\ fb_max_rpm \in 1..MaxRpm
    /\ fb_now = 0
    /\ fb_request_times = <<>>
    /\ fb_calls = 0
    /\ fb_attempt = 0
    /\ fb_sent = 0
    /\ fb_last = ""
    /\ fb_last_wait = 0
    /\ fb_result = ""
    /\ fb_send_times = <<>>
    /\ ParserIdle
    /\ StatsIdle

SpecFibery == InitFibery /\ [][FiberyNext]_vars

(***************************************************************************)
(* Part VIII: FiberyParser.parse (parser/fibery_parser.py) with the        *)
(* default patterns #(\d+) and \[([^\]]+)\].                               *)
(***************************************************************************)
MaxParts == 4

\* The pieces descriptions are built from.
Chunks ==
    {<<"a">>, <<" ">>, <<"#">>, <<"1">>, <<"]">>, <<"[">>,
     <<"#", "1">>, <<"#", "2">>,
     <<"[", "b", "]">>, <<"[", "c", "]">>, <<"[", "d", "]">>}

RECURSIVE Texts(_)
Texts(n) ==
    IF n = 0 THEN {<<>>}
    ELSE Texts(n - 1) \cup {t \o c : t \in Texts(n - 1), c \in Chunks}

\* \d
Digits == {"0", "1", "2", "3", "4", "5", "6", "7", "8", "9"}

\* The end of the longest run of digits that starts at position p.
RECURSIVE DigitsEnd(_, _)
DigitsEnd(s, p) ==
    IF p < Len(s) /\ s[p + 1] \in Digits THEN DigitsEnd(s, p + 1) ELSE p

\* entity_id_pattern.finditer(description), scanning from position p: the
\* matches of #(\d+), left to right, as first and last position.
RECURSIVE IdMatches(_, _)
IdMatches(s, p) ==
    IF p > Len(s) THEN <<>>
    ELSE IF s[p] = "#" /\ p < Len(s) /\ s[p + 1] \in Digits
    THEN <<[start |-> p, stop |-> DigitsEnd(s, p + 1)]>>
         \o IdMatches(s, DigitsEnd(s, p + 1) + 1)
    ELSE IdMatches(s, p + 1)

\* The position of the first "]" at or after p, or 0.
RECURSIVE FirstClose(_, _)
FirstClose(s, p) ==
    IF p > Len(s) THEN 0
    ELSE IF s[p] = "]" THEN p
    ELSE FirstClose(s, p + 1)

\* tag_pattern.findall(description), scanning from position p: group 1 of
\* the matches of \[([^\]]+)\], left to right.
RECURSIVE TagMatches(_, _)
TagMatches(s, p) ==
    IF p > Len(s) THEN <<>>
    ELSE IF s[p] = "[" /\ FirstClose(s, p + 1) > p + 1
    THEN <<SubSeq(s, p + 1, FirstClose(s, p + 1) - 1)>>
         \o TagMatches(s, FirstClose(s, p + 1) + 1)
    ELSE TagMatches(s, p + 1)

\* str.strip()
RECURSIVE lstrip(_)
lstrip(s) == IF s # <<>> /\ Head(s) = " " THEN lstrip(Tail(s)) ELSE s

RECURSIVE rstrip(_)
rstrip(s) ==
    IF s # <<>> /\ s[Len(s)] = " " THEN rstrip(SubSeq(s, 1, Len(s) - 1)) ELSE s

strip(s) == rstrip(lstrip(s))

\* _empty_result
empty_result(description) ==
    [EmptyResult EXCEPT !.description_clean =
        IF description # None /\ description # <<>> THEN strip(description)
        ELSE <<>>]

\* for match in finditer(...): entity_id_match = match
KeptMatchMutantFirst(matches) == matches[1]

KeptMatch(matches) == matches[Len(matches)]

\* FiberyParser.parse
parse(description) ==
    IF description = None \/ description = <<>> THEN empty_result(description)
    ELSE LET matches == IdMatches(description, 1)
             tags == TagMatches(description, 1)
         IN  IF matches = <<>> THEN empty_result(description)
             ELSE LET entity_id_match == KeptMatch(matches)
                  IN  [description_clean |->
                         strip(SubSeq(description, 1, entity_id_match.start - 1)),
                       entity_id |-> SubSeq(description, entity_id_match.start + 1,
                                            entity_id_match.stop),
                       entity_database |-> IF Len(tags) >= 1 THEN tags[1] ELSE None,
                       entity_type |-> IF Len(tags) >= 2 THEN tags[2] ELSE None,
                       project |-> IF Len(tags) >= 1 THEN tags[Len(tags)] ELSE None,
                       is_matched |-> TRUE]

Parse ==
    /\ ps_pc = "input"
    /\ ps_result' = parse(ps_description)
    /\ ps_pc' = "returned"
    /\ UNCHANGED ps_description
    /\ UNCHANGED <<coreVars, dbVars, dpVars, togglVars, fiberyVars, statsVars, moreVars>>

ParserNext == Parse

\* A parser with the default patterns and a description of up to MaxParts
\* pieces, or None.
InitParser ==
    /\ MoreIdle
    /\ CoreIdle
    /\ DbIdle
    /\ DirectIdle
    /\ TogglIdle
    /\ FiberyIdle
    /\ ps_pc = "input"
    /\ ps_description \in Texts(MaxParts) \cup {None}
    /\ ps_result = EmptyResult
    /\ StatsIdle

SpecParser == InitParser /\ [][ParserNext]_vars

(***************************************************************************)
(* Part IX: aggregated_stats in enrich_features_from_tasks                 *)
(* (enrichment/pipeline.py).                                               *)
(***************************************************************************)
MaxTasks == 2

\* datetime.now(), and the planned ends around it.
Now == 2

\* plannedEnd of a task: no value, a text that is no ISO date, or a date
\* (before now, now, after now).
NoEta == -1
BadEta == -2
Etas == {NoEta, BadEta, 1, 2, 3}

StateNames == {"Done", "completed", "CLOSED", "Open"}

\* task_obj.get('state', {}): a dict with a name, a plain string, a key
\* that is missing, or a value that is neither (None).
StateObjs ==
    [kind : {"dict", "str"}, name : StateNames]
      \cup {[kind |-> "missing", name |-> ""], [kind |-> "none", name |-> ""]}

FeatureTasks == [state : StateObjs, plannedEnd : Etas]

\* state.lower()
lower(state) ==
    CASE state = "Done" -> "done"
      [] state = "completed" -> "completed"
      [] state = "CLOSED" -> "closed"
      [] state = "Open" -> "open"
      [] state = "Unknown" -> "unknown"

\* The isinstance chain on state_obj
StateOf(state_obj) ==
    IF state_obj.kind \in {"dict", "str"} THEN state_obj.name ELSE "Unknown"

\* is_overdue: eta and not is_completed, the date parses, today > eta_date
IsOverdueMutantIgnoresState(eta, is_completed) ==
    eta # NoEta /\ eta # BadEta /\ Now > eta

IsOverdue(eta, is_completed) ==
    eta # NoEta /\ ~is_completed /\ eta # BadEta /\ Now > eta

\* One pass of `for task_obj in all_feature_tasks`.
FtTask ==
    /\ ft_pc = "loop"
    /\ Len(ft_feature_tasks) < Len(ft_tasks)
    /\ LET task_obj == ft_tasks[Len(ft_feature_tasks) + 1]
           state == StateOf(task_obj.state)
           is_completed == lower(state) \in {"done", "completed", "closed"}
           is_overdue == IsOverdue(task_obj.plannedEnd, is_completed)
       IN  /\ ft_completed' = ft_completed + (IF is_completed THEN 1 ELSE 0)
           /\ ft_overdue' = ft_overdue + (IF is_overdue THEN 1 ELSE 0)
           /\ ft_feature_tasks' =
                Append(ft_feature_tasks,
                       [state |-> state, is_completed |-> is_completed,
                        is_overdue |-> is_overdue, eta |-> task_obj.plannedEnd])
    /\ UNCHANGED <<ft_pc, ft_tasks, ft_stats>>
    /\ UNCHANGED <<coreVars, dbVars, dpVars, togglVars, fiberyVars, parserVars, moreVars>>

\* After the loop: feature_data['aggregated_stats'] = {...}
FtAggregate ==
    /\ ft_pc = "loop"
    /\ Len(ft_feature_tasks) = Len(ft_tasks)
    /\ ft_stats' = [total_tasks |-> Len(ft_feature_tasks),
                    completed_tasks |-> ft_completed,
                    remaining_tasks |-> Len(ft_feature_tasks) - ft_completed,
                    overdue_tasks |-> ft_overdue]
    /\ ft_pc' = "returned"
    /\ UNCHANGED <<ft_tasks, ft_feature_tasks, ft_completed, ft_overdue>>
    /\ UNCHANGED <<coreVars, dbVars, dpVars, togglVars, fiberyVars, parserVars, moreVars>>

StatsNext ==
    \/ FtTask
    \/ FtAggregate

\* A Feature with up to MaxTasks tasks, before the task loop.
InitStats ==
    /\ MoreIdle
    /\ CoreIdle
    /\ DbIdle
    /\ DirectIdle
    /\ TogglIdle
    /\ FiberyIdle
    /\ ParserIdle
    /\ ft_pc = "loop"
    /\ ft_tasks \in UNION {[1..n -> FeatureTasks] : n \in 0..MaxTasks}
    /\ ft_feature_tasks = <<>>
    /\ ft_completed = 0
    /\ ft_overdue = 0
    /\ ft_stats = NoStats

SpecStats == InitStats /\ [][StatsNext]_vars


\* Nothing of Parts I to IX is in use.
EarlierIdle ==
    /\ CoreIdle
    /\ DbIdle
    /\ DirectIdle
    /\ TogglIdle
    /\ FiberyIdle
    /\ ParserIdle
    /\ StatsIdle

\* Every part but one is idle.
IdleExceptReport ==
    /\ EarlierIdle
    /\ CliIdle
    /\ ConcIdle
    /\ ExtractIdle
    /\ BatchIdle
    /\ DayIdle
    /\ StageIdle
    /\ WriterIdle
    /\ AggIdle

IdleExceptCli ==
    /\ EarlierIdle
    /\ ReportIdle
    /\ ConcIdle
    /\ ExtractIdle
    /\ BatchIdle
    /\ DayIdle
    /\ StageIdle
    /\ WriterIdle
    /\ AggIdle

IdleExceptConc ==
    /\ EarlierIdle
    /\ ReportIdle
    /\ CliIdle
    /\ ExtractIdle
    /\ BatchIdle
    /\ DayIdle
    /\ StageIdle
    /\ WriterIdle
    /\ AggIdle

IdleExceptExtract ==
    /\ EarlierIdle
    /\ ReportIdle
    /\ CliIdle
    /\ ConcIdle
    /\ BatchIdle
    /\ DayIdle
    /\ StageIdle
    /\ WriterIdle
    /\ AggIdle

IdleExceptBatch ==
    /\ EarlierIdle
    /\ ReportIdle
    /\ CliIdle
    /\ ConcIdle
    /\ ExtractIdle
    /\ DayIdle
    /\ StageIdle
    /\ WriterIdle
    /\ AggIdle

IdleExceptDay ==
    /\ EarlierIdle
    /\ ReportIdle
    /\ CliIdle
    /\ ConcIdle
    /\ ExtractIdle
    /\ BatchIdle
    /\ StageIdle
    /\ WriterIdle
    /\ AggIdle

IdleExceptStage ==
    /\ EarlierIdle
    /\ ReportIdle
    /\ CliIdle
    /\ ConcIdle
    /\ ExtractIdle
    /\ BatchIdle
    /\ DayIdle
    /\ WriterIdle
    /\ AggIdle

IdleExceptWriter ==
    /\ EarlierIdle
    /\ ReportIdle
    /\ CliIdle
    /\ ConcIdle
    /\ ExtractIdle
    /\ BatchIdle
    /\ DayIdle
    /\ StageIdle
    /\ AggIdle

IdleExceptAgg ==
    /\ EarlierIdle
    /\ ReportIdle
    /\ CliIdle
    /\ ConcIdle
    /\ ExtractIdle
    /\ BatchIdle
    /\ DayIdle
    /\ StageIdle
    /\ WriterIdle

(***************************************************************************)
(* Part X: the statistics of the individual and the team report            *)
(* (reporting/generator.py) and the user_stats that run_report_generation  *)
(* hands to the team report (main.py).  Quotients are kept as exact        *)
(* fractions.                                                              *)
(***************************************************************************)
MaxReportEntries == 2
MaxReportUsers == 2

\* total_duration of an aggregated entry, in seconds.
ReportDurations == {0, 1800, 7200}

\* Lists of aggregated entries of one user.
ReportEntryLists ==
    UNION {[1..n -> [total_duration : ReportDurations]] : n \in 0..MaxReportEntries}

\* total_duration of the entries of the users of a team report.
UserDurations == {0, 1800}

\* Lists of matched or unmatched entries of one user of a team report.
UserEntryLists ==
    UNION {[1..n -> [total_duration : UserDurations]] : n \in 0..MaxReportEntries}

\* sum(e['total_duration'] for e in entries)
RECURSIVE SumTotalDuration(_)
SumTotalDuration(entries) ==
    IF entries = <<>> THEN 0
    ELSE Head(entries).total_duration + SumTotalDuration(Tail(entries))

\* sum(u[field] for u in user_stats)
RECURSIVE SumStats(_, _)
SumStats(user_stats, field) ==
    IF user_stats = <<>> THEN 0
    ELSE Head(user_stats)[field] + SumStats(Tail(user_stats), field)

\* (part / total_seconds * 100) if total_seconds > 0 else 0
ShareOfTotalMutantHundred(part, total_seconds) ==
    IF total_seconds > 0 THEN Fraction(part * 100, total_seconds)
    ELSE Fraction(100, 1)
ShareOfTotal(part, total_seconds) ==
    IF total_seconds > 0 THEN Fraction(part * 100, total_seconds)
    ELSE Fraction(0, 1)

\* The statistics block shared by the two reports.
Statistics(total_seconds, matched_seconds, unmatched_seconds) ==
    [total_seconds |-> total_seconds,
     matched_seconds |-> matched_seconds,
     unmatched_seconds |-> unmatched_seconds,
     total_hours |-> Fraction(total_seconds, 3600),
     matched_pct |-> ShareOfTotal(matched_seconds, total_seconds),
     unmatched_pct |-> ShareOfTotal(unmatched_seconds, total_seconds)]

\* generate_individual_report, "Calculate statistics".
GenerateIndividualReport(matched_entries, unmatched_entries) ==
    /\ rp_pc = "individual"
    /\ LET matched_seconds == SumTotalDuration(matched_entries)
           unmatched_seconds == SumTotalDuration(unmatched_entries)
           total_seconds == matched_seconds + unmatched_seconds
       IN  rp_individual' =
               Statistics(total_seconds, matched_seconds, unmatched_seconds)
    /\ rp_matched' = matched_entries
    /\ rp_unmatched' = unmatched_entries
    /\ rp_pc' = "done"
    /\ UNCHANGED <<rp_user_stats, rp_team>>
    /\ UNCHANGED othersReport

\* run_report_generation, "Calculate user stats": one turn of the user loop.
AppendUserStats(matched, unmatched) ==
    /\ rp_pc = "team"
    /\ Len(rp_user_stats) < MaxReportUsers
    /\ LET matched_seconds == SumTotalDuration(matched)
           unmatched_seconds == SumTotalDuration(unmatched)
       IN  rp_user_stats' = Append(rp_user_stats,
               [total_seconds |-> matched_seconds + unmatched_seconds,
                matched_seconds |-> matched_seconds,
                unmatched_seconds |-> unmatched_seconds])
    /\ UNCHANGED <<rp_pc, rp_matched, rp_unmatched, rp_individual, rp_team>>
    /\ UNCHANGED othersReport

\* generate_team_report, "Calculate team totals".
GenerateTeamReport ==
    /\ rp_pc = "team"
    /\ LET total_seconds == SumStats(rp_user_stats, "total_seconds")
           matched_seconds == SumStats(rp_user_stats, "matched_seconds")
           unmatched_seconds == SumStats(rp_user_stats, "unmatched_seconds")
       IN  rp_team' =
               Statistics(total_seconds, matched_seconds, unmatched_seconds)
    /\ rp_pc' = "done"
    /\ UNCHANGED <<rp_matched, rp_unmatched, rp_individual, rp_user_stats>>
    /\ UNCHANGED othersReport

ReportNext ==
    \/ \E m, u \in ReportEntryLists : GenerateIndividualReport(m, u)
    \/ \E m, u \in UserEntryLists : AppendUserStats(m, u)
    \/ GenerateTeamReport

\* Before an individual report, or before the user loop that ends in the
\* team report.
InitReport ==
    /\ IdleExceptReport
    /\ rp_pc \in {"individual", "team"}
    /\ rp_matched = <<>>
    /\ rp_unmatched = <<>>
    /\ rp_individual = NoReport
    /\ rp_user_stats = <<>>
    /\ rp_team = NoReport

SpecReport == InitReport /\ [][ReportNext]_vars


(***************************************************************************)
(* Part XI: the pipeline commands (cli_pipeline.py) and the first lines of *)
(* TogglFiberyPipeline.run (pipeline_workflow.py).  The clock is read in   *)
(* whole seconds, as strftime("%Y-%m-%d-%H-%M-%S") prints it.              *)
(***************************************************************************)
MaxClock == 2

\* f"run_{timestamp}"
GeneratedRunId(clock) == <<"run", clock>>

\* The run ids that can be passed on a command line.
RunIdArgs == {<<"given", 1>>} \cup {GeneratedRunId(t) : t \in 0..MaxClock}

\* Time passes.
ClockTick ==
    /\ cli_clock < MaxClock
    /\ cli_clock' = cli_clock + 1
    /\ UNCHANGED <<cli_pc, cli_option, cli_run_id, cli_workflow_id, cli_input,
                   cli_wf_run_id, cli_dirs, cli_cancel, cli_show>>
    /\ UNCHANGED othersCli

\* _run_pipeline_async up to client.start_workflow: the input is built from
\* the option, then the run id is generated if the option is absent.
RunPipeline(run_id, start_from) ==
    /\ cli_pc = "idle"
    /\ cli_option' = run_id
    /\ IF start_from = "fibery" /\ run_id = NoRunId
       THEN /\ cli_pc' = "exited"
            /\ UNCHANGED <<cli_run_id, cli_workflow_id, cli_input>>
       ELSE LET pipeline_input_run_id == run_id
                generated == IF run_id = NoRunId
                             THEN GeneratedRunId(cli_clock) ELSE run_id
            IN  /\ cli_input' = pipeline_input_run_id
                /\ cli_run_id' = generated
                /\ cli_workflow_id' = WorkflowId(generated)
                /\ cli_pc' = "started"
    /\ UNCHANGED <<cli_clock, cli_wf_run_id, cli_dirs, cli_cancel, cli_show>>
    /\ UNCHANGED othersCli

\* TogglFiberyPipeline.run, "Generate run_id if not provided".
WorkflowRunId ==
    /\ cli_pc = "started"
    /\ cli_wf_run_id' = IF cli_input = NoRunId
                        THEN GeneratedRunId(cli_clock) ELSE cli_input
    /\ cli_pc' = "running"
    /\ UNCHANGED <<cli_clock, cli_option, cli_run_id, cli_workflow_id, cli_input,
                   cli_dirs, cli_cancel, cli_show>>
    /\ UNCHANGED othersCli

\* The activities of the run, each called with run_id, write the artifacts
\* under get_run_dir(run_id).
WorkflowActivities ==
    /\ cli_pc = "running"
    /\ cli_dirs' = cli_dirs \cup {cli_wf_run_id}
    /\ cli_pc' = "closed"
    /\ UNCHANGED <<cli_clock, cli_option, cli_run_id, cli_workflow_id, cli_input,
                   cli_wf_run_id, cli_cancel, cli_show>>
    /\ UNCHANGED othersCli

\* _cancel_run_async: the handle of workflow toggl-fibery-{run_id}.
CancelRun(run_id) ==
    /\ cli_pc \in {"started", "running"}
    /\ LET workflow_id == WorkflowId(run_id)
       IN  /\ cli_cancel' = [run_id |-> run_id, hit |-> workflow_id = cli_workflow_id]
           /\ cli_pc' = IF workflow_id = cli_workflow_id THEN "closed" ELSE cli_pc
    /\ UNCHANGED <<cli_clock, cli_option, cli_run_id, cli_workflow_id, cli_input,
                   cli_wf_run_id, cli_dirs, cli_show>>
    /\ UNCHANGED othersCli

\* show_run: JSONStorage.load_run_metadata(run_id) reads get_run_dir(run_id).
ShowRun(run_id) ==
    /\ cli_pc = "closed"
    /\ cli_show' = [run_id |-> run_id, hit |-> run_id \in cli_dirs]
    /\ UNCHANGED <<cli_pc, cli_clock, cli_option, cli_run_id, cli_workflow_id,
                   cli_input, cli_wf_run_id, cli_dirs, cli_cancel>>
    /\ UNCHANGED othersCli

CliNext ==
    \/ ClockTick
    \/ \E r \in {NoRunId, <<"given", 1>>}, sf \in {"toggl", "fibery"} : RunPipeline(r, sf)
    \/ WorkflowRunId
    \/ WorkflowActivities
    \/ \E r \in RunIdArgs : CancelRun(r)
    \/ \E r \in RunIdArgs : ShowRun(r)

\* Before any pipeline command.
InitCli ==
    /\ IdleExceptCli
    /\ CliIdle

SpecCli == InitCli /\ [][CliNext]_vars


(***************************************************************************)
(* Part XII: the max_concurrent that enrich_entities_by_type hands to      *)
(* process_with_rolling_window for each group (fibery_activities.py).      *)
(***************************************************************************)
\* The values a max_concurrent key is configured with.
ConfiguredValues == {2, 7}

\* dict.get(key, fallback) on a key that may be absent.
Get(value, fallback) == IF value = Unset THEN fallback ELSE value

\* "Get max_concurrent from config" and "Get default max_concurrent if not
\* specified": the second lookup runs only when the first result is falsy.
ResolveMaxConcurrent(config, type_name) ==
    LET of_type == Get(config.types[type_name], 5)
    IN  IF of_type = 0
        THEN Get(config.default, 5)
        ELSE of_type

\* One turn of the loop over entities_by_type.items().
EnrichGroup ==
    /\ mc_pc = "loop"
    /\ mc_groups # <<>>
    /\ LET type_name == Head(mc_groups)
       IN  mc_used' = [mc_used EXCEPT
                          ![type_name] = ResolveMaxConcurrent(mc_config, type_name)]
    /\ mc_groups' = Tail(mc_groups)
    /\ UNCHANGED <<mc_pc, mc_config>>
    /\ UNCHANGED othersConc

\* The loop is over: return all_enriched.
EnrichReturn ==
    /\ mc_pc = "loop"
    /\ mc_groups = <<>>
    /\ mc_pc' = "returned"
    /\ UNCHANGED <<mc_config, mc_groups, mc_used>>
    /\ UNCHANGED othersConc

ConcNext ==
    \/ EnrichGroup
    \/ EnrichReturn

\* A call with any configuration and any groups, before the loop.
InitConc ==
    /\ IdleExceptConc
    /\ mc_pc = "loop"
    /\ mc_config \in [types : [TypeNames -> ConfiguredValues \cup {Unset}],
                      default : ConfiguredValues \cup {Unset}]
    /\ mc_groups \in UNION {Orders(S) : S \in SUBSET TypeNames}
    /\ mc_used = [t \in TypeNames |-> Unset]

SpecConc == InitConc /\ [][ConcNext]_vars


(***************************************************************************)
(* Part XIII: extract_fibery_entities, enrich_entities_by_type             *)
(* (fibery_activities.py) and the entity_map of generate_person_reports    *)
(* (reporting_activities.py).                                              *)
(***************************************************************************)
MaxMatched == 2

\* The matched entities that descriptions refer to: "#7 [Scrum] [Task]",
\* "#7 [Scrum] [Bug]", "#8 [Scrum] [Task]" and "#7" without tags.
EntityRefs ==
    {[entity_id |-> "7", entity_database |-> "Scrum", entity_type |-> "Task"],
     [entity_id |-> "7", entity_database |-> "Scrum", entity_type |-> "Bug"],
     [entity_id |-> "8", entity_database |-> "Scrum", entity_type |-> "Task"],
     [entity_id |-> "7", entity_database |-> Null, entity_type |-> Null]}

\* matched_entities of one user: one element per entity key.
MatchedLists ==
    {s \in UNION {[1..n -> EntityRefs] : n \in 0..MaxMatched} :
        \A i, j \in DOMAIN s : s[i] = s[j] => i = j}

\* The position of type_key in entities_by_type, 0 if it is not a key.
GroupOf(by_type, type_key) ==
    IF \E g \in DOMAIN by_type : by_type[g].key = type_key
    THEN CHOOSE g \in DOMAIN by_type : by_type[g].key = type_key
    ELSE 0

\* The body of the loop over matched_entities for one entity_data.
AddEntity(by_type, entity_data) ==
    IF \/ entity_data.entity_id = Null
       \/ entity_data.entity_database = Null
       \/ entity_data.entity_type = Null
    THEN by_type
    ELSE LET type_key == <<entity_data.entity_database, entity_data.entity_type>>
             g == GroupOf(by_type, type_key)
         IN  IF g = 0
             THEN Append(by_type, [key |-> type_key, ids |-> <<entity_data.entity_id>>])
             ELSE IF entity_data.entity_id \in Range(by_type[g].ids)
                  THEN by_type
                  ELSE [by_type EXCEPT ![g].ids = Append(@, entity_data.entity_id)]

\* The loop over the matched_entities of one user.
RECURSIVE AddEntities(_, _)
AddEntities(by_type, matched_entities) ==
    IF matched_entities = <<>> THEN by_type
    ELSE AddEntities(AddEntity(by_type, Head(matched_entities)),
                     Tail(matched_entities))

\* The loop over aggregated_data["users"].items().
RECURSIVE AddUsers(_, _, _)
AddUsers(by_type, aggregated, users) ==
    IF users = <<>> THEN by_type
    ELSE AddUsers(AddEntities(by_type, aggregated[Head(users)]),
                  aggregated, Tail(users))

\* The users in the order of the aggregated file.
UserOrder == CHOOSE s \in Orders(Users) : TRUE

\* extract_fibery_entities
ExtractFiberyEntities ==
    /\ ex_pc = "extract"
    /\ ex_by_type' = AddUsers(<<>>, ex_aggregated, UserOrder)
    /\ ex_pc' = "enrich"
    /\ UNCHANGED <<ex_aggregated, ex_group, ex_enriched, ex_entity_map>>
    /\ UNCHANGED othersExtract

\* The enriched dictionary an enrichment function returns.
Enriched(entity_id, type_key) ==
    [entity_id |-> entity_id, entity_type |-> type_key]

\* One turn of the loop of enrich_entities_by_type: the rolling window
\* returns one result per id of the group in completion order, or raises.
EnrichTypeGroup ==
    /\ ex_pc = "enrich"
    /\ ex_group < Len(ex_by_type)
    /\ LET group == ex_by_type[ex_group + 1]
       IN  \/ \E order \in Orders(Range(group.ids)) :
                /\ ex_enriched' = ex_enriched \o
                       [k \in DOMAIN order |-> Enriched(order[k], group.key)]
                /\ ex_group' = ex_group + 1
                /\ UNCHANGED ex_pc
           \/ /\ ex_pc' = "raised"
              /\ UNCHANGED <<ex_group, ex_enriched>>
    /\ UNCHANGED <<ex_aggregated, ex_by_type, ex_entity_map>>
    /\ UNCHANGED othersExtract

\* enrich_entities_by_type returns all_enriched.
EnrichTypesReturn ==
    /\ ex_pc = "enrich"
    /\ ex_group = Len(ex_by_type)
    /\ ex_pc' = "reports"
    /\ UNCHANGED <<ex_aggregated, ex_by_type, ex_group, ex_enriched, ex_entity_map>>
    /\ UNCHANGED othersExtract

\* {e["entity_id"]: e for e in enriched_entities}: the last entry of an id
\* stays.
EntityMap(enriched_entities) ==
    [i \in {enriched_entities[k].entity_id : k \in DOMAIN enriched_entities} |->
        LET last == CHOOSE k \in DOMAIN enriched_entities :
                        /\ enriched_entities[k].entity_id = i
                        /\ \A l \in DOMAIN enriched_entities :
                               enriched_entities[l].entity_id = i => l <= k
        IN  enriched_entities[last]]

\* generate_person_reports, "Build entity ID -> enriched data mapping".
BuildEntityMap ==
    /\ ex_pc = "reports"
    /\ ex_entity_map' = EntityMap(ex_enriched)
    /\ ex_pc' = "done"
    /\ UNCHANGED <<ex_aggregated, ex_by_type, ex_group, ex_enriched>>
    /\ UNCHANGED othersExtract

ExtractNext ==
    \/ ExtractFiberyEntities
    \/ EnrichTypeGroup
    \/ EnrichTypesReturn
    \/ BuildEntityMap

\* Aggregated data of any content, before the Fibery stage.
InitExtract ==
    /\ IdleExceptExtract
    /\ ex_pc = "extract"
    /\ ex_aggregated \in [Users -> MatchedLists]
    /\ ex_by_type = <<>>
    /\ ex_group = 0
    /\ ex_enriched = <<>>
    /\ ex_entity_map = [i \in {} |-> 0]

SpecExtract == InitExtract /\ [][ExtractNext]_vars


(***************************************************************************)
(* Part XIV: EnrichmentPipeline.enrich_entities_batch and enrich_entity    *)
(* (enrichment/pipeline.py).  An entity dictionary is reduced to its       *)
(* public id; the summary step, which only adds summary_md, is left out.   *)
(***************************************************************************)
MaxRequests == 3

\* The requests of a batch: well formed, or without id or without type.
Requests ==
    [entity_id : {"7", "8", Null}, entity_type : {"Scrum/Task", Null}]

\* db.get_fibery_entity_by_public_id: the cached entity, if any.
CachedEntity(cache, entity_id) == entity_id \in cache

\* db.upsert_fibery_entity
CacheEntity(cache, entity_id) == cache \cup {entity_id}

\* enrich_entity: returned = an entity dictionary is returned (not None);
\* fetched = entity_fetcher.fetch_entity returns an entity.
enrich_entityMutantNoCount(cache, errors, entity_id, use_cache, fetched) ==
    IF use_cache /\ CachedEntity(cache, entity_id)
    THEN [returned |-> TRUE, how |-> "cached", cache |-> cache, errors |-> errors]
    ELSE IF ~fetched
         THEN [returned |-> FALSE, how |-> "failed", cache |-> cache,
               errors |-> errors]
         ELSE [returned |-> TRUE, how |-> "fetched",
               cache |-> CacheEntity(cache, entity_id), errors |-> errors]
enrich_entity(cache, errors, entity_id, use_cache, fetched) ==
    IF use_cache /\ CachedEntity(cache, entity_id)
    THEN [returned |-> TRUE, how |-> "cached", cache |-> cache, errors |-> errors]
    ELSE IF ~fetched
         THEN [returned |-> FALSE, how |-> "failed", cache |-> cache,
               errors |-> errors + 1]
         ELSE [returned |-> TRUE, how |-> "fetched",
               cache |-> CacheEntity(cache, entity_id), errors |-> errors]

\* One turn of the loop of enrich_entities_batch.
BatchTurn(fetched) ==
    /\ eb_pc = "loop"
    /\ eb_done < Len(eb_entities)
    /\ LET entity_info == eb_entities[eb_done + 1]
           entity_id == entity_info.entity_id
           entity_type == entity_info.entity_type
       IN  IF entity_id = Null \/ entity_type = Null
           THEN /\ eb_log' = Append(eb_log, [at |-> eb_done + 1, how |-> "skipped"])
                /\ UNCHANGED <<eb_enriched, eb_errors, eb_cache>>
           ELSE LET r == enrich_entity(eb_cache, eb_errors, entity_id,
                                       eb_use_cache, fetched)
                IN  /\ eb_enriched' = IF r.returned
                                      THEN eb_enriched \cup {entity_id}
                                      ELSE eb_enriched
                    /\ eb_errors' = r.errors
                    /\ eb_cache' = r.cache
                    /\ eb_log' = Append(eb_log, [at |-> eb_done + 1, how |-> r.how])
    /\ eb_done' = eb_done + 1
    /\ UNCHANGED <<eb_pc, eb_entities, eb_use_cache>>
    /\ UNCHANGED othersBatch

\* return enriched
BatchReturn ==
    /\ eb_pc = "loop"
    /\ eb_done = Len(eb_entities)
    /\ eb_pc' = "returned"
    /\ UNCHANGED <<eb_entities, eb_use_cache, eb_done, eb_enriched, eb_errors,
                   eb_cache, eb_log>>
    /\ UNCHANGED othersBatch

BatchNext ==
    \/ \E fetched \in BOOLEAN : BatchTurn(fetched)
    \/ BatchReturn

\* A call with any list of requests, on a cache that may hold entity 7.
InitBatch ==
    /\ IdleExceptBatch
    /\ eb_pc = "loop"
    /\ eb_entities \in UNION {[1..n -> Requests] : n \in 0..MaxRequests}
    /\ eb_use_cache \in BOOLEAN
    /\ eb_done = 0
    /\ eb_enriched = {}
    /\ eb_errors = 0
    /\ eb_cache \in {{}, {"7"}}
    /\ eb_log = <<>>

SpecBatch == InitBatch /\ [][BatchNext]_vars


(***************************************************************************)
(* Part XV: TogglClient._fetch_day (toggl/client.py), the pagination loop  *)
(* of one day, with the cursor headers of each response.  The groups of a  *)
(* response are reduced to the number of entries they hold.                *)
(***************************************************************************)
MaxDayPages == 3

\* Texts a cursor header can carry; response.headers.get gives None when
\* the header is absent.
HeaderTexts == {"", "0", "50", "x"}
HeaderValues == {PyNone} \cup {PyStr(t) : t \in HeaderTexts}

\* Truth value of a Python value in a condition.
Truthy(v) ==
    CASE v.type = "None" -> FALSE
      [] v.type = "str" -> v.text # ""
      [] v.type = "int" -> v.number # 0

\* int(text) succeeds.
ParsesAsInt(v) == v.type = "str" /\ v.text \in {"0", "50"}

\* int(text)
IntOf(v) == IF v.text = "0" THEN PyInt(0) ELSE PyInt(50)

\* A key of the payload that is not set.
NoKey == PyNone

\* The cursor keys of the payload built at the top of the loop.
CursorPayload(next_id, first_row_number) ==
    [first_id |-> IF Truthy(next_id) THEN next_id ELSE NoKey,
     first_row_number |-> IF Truthy(first_row_number) THEN first_row_number
                          ELSE NoKey]

\* page_num += 1; build the payload; self._make_request(endpoint, payload)
FetchDayRequest ==
    /\ fd_pc = "request"
    /\ fd_page_num < MaxDayPages
    /\ fd_page_num' = fd_page_num + 1
    /\ fd_payload' = CursorPayload(fd_next_id, fd_first_row_number)
    /\ fd_pc' = "response"
    /\ UNCHANGED <<fd_next_id, fd_first_row_number, fd_previous, fd_entries>>
    /\ UNCHANGED othersDay

\* The rest of the loop body, on a response with the given number of
\* entries and the given cursor headers.
FetchDayResponse(count, x_next_id, x_next_row_number) ==
    /\ fd_pc = "response"
    /\ IF count = 0
       THEN /\ fd_pc' = "returned"
            /\ UNCHANGED <<fd_next_id, fd_first_row_number, fd_entries>>
       ELSE /\ fd_entries' = fd_entries + count
            /\ IF ~Truthy(x_next_id) \/ ~Truthy(x_next_row_number)
               THEN /\ fd_pc' = "returned"
                    /\ fd_next_id' = x_next_id
                    /\ fd_first_row_number' = x_next_row_number
               ELSE IF ~ParsesAsInt(x_next_id)
               THEN /\ fd_pc' = "returned"
                    /\ fd_next_id' = x_next_id
                    /\ fd_first_row_number' = x_next_row_number
               ELSE IF ~ParsesAsInt(x_next_row_number)
               THEN /\ fd_pc' = "returned"
                    /\ fd_next_id' = IntOf(x_next_id)
                    /\ fd_first_row_number' = x_next_row_number
               ELSE /\ fd_pc' = "request"
                    /\ fd_next_id' = IntOf(x_next_id)
                    /\ fd_first_row_number' = IntOf(x_next_row_number)
    /\ fd_previous' = [next_id |-> x_next_id,
                       first_row_number |-> x_next_row_number]
    /\ UNCHANGED <<fd_page_num, fd_payload>>
    /\ UNCHANGED othersDay

DayNext ==
    \/ FetchDayRequest
    \/ \E count \in 0..1, x_next_id \in HeaderValues,
          x_next_row_number \in HeaderValues :
          FetchDayResponse(count, x_next_id, x_next_row_number)

InitDay ==
    /\ IdleExceptDay
    /\ fd_pc = "request"
    /\ fd_next_id = PyNone
    /\ fd_first_row_number = PyNone
    /\ fd_page_num = 0
    /\ fd_payload = [first_id |-> NoKey, first_row_number |-> NoKey]
    /\ fd_previous = [next_id |-> PyNone, first_row_number |-> PyNone]
    /\ fd_entries = 0

SpecDay == InitDay /\ [][DayNext]_vars


(***************************************************************************)
(* Part XVI: the activities of a workflow run from fetch_toggl_data to     *)
(* generate_team_report (pipeline_workflow.py, toggl_activities.py,        *)
(* reporting_activities.py), reduced to the users, the entity references   *)
(* and the files of the reports.  Every activity has one attempt; a        *)
(* raising activity fails the run.                                         *)
(***************************************************************************)
MaxFilter == 2

\* Email addresses as Toggl stores them and as an operator may type them.
Emails == {"Ann@x", "ann@x", "bob@x"}
TogglEmails == {"Ann@x", "bob@x"}

\* str.lower()
Lower(email) == IF email = "Ann@x" THEN "ann@x" ELSE email

\* The entries Toggl may hold: per user, with or without an entity reference.
StageEntries == [user_email : TogglEmails, entity_id : {"7", Null}]

\* The values of the --users option: absent, or a list of addresses.
UsersOptions == UNION {[1..n -> Emails] : n \in 0..MaxFilter}

\* TogglFiberyPipeline._get_users_from_data
GetUsersFromData == <<>>

\* fetch_toggl_data: the entries kept by the email filter are saved.
ActFetchTogglData ==
    /\ fs_pc = "fetch_toggl_data"
    /\ fs_raw' = IF fs_users_option # <<>>
                 THEN {e \in fs_toggl :
                          Lower(e.user_email) \in
                              {Lower(fs_users_option[k]) : k \in DOMAIN fs_users_option}}
                 ELSE fs_toggl
    /\ fs_pc' = "aggregate_toggl_data"
    /\ UNCHANGED <<fs_users_option, fs_toggl, fs_aggregated, fs_enriched,
                   fs_person_reports, fs_files>>
    /\ UNCHANGED othersStage

\* aggregate_toggl_data: one key of "users" per email of the raw entries.
ActAggregateTogglData ==
    /\ fs_pc = "aggregate_toggl_data"
    /\ fs_aggregated' = {e.user_email : e \in fs_raw}
    /\ fs_pc' = "enrich_entities_by_type"
    /\ UNCHANGED <<fs_users_option, fs_toggl, fs_raw, fs_enriched,
                   fs_person_reports, fs_files>>
    /\ UNCHANGED othersStage

\* extract_fibery_entities and enrich_entities_by_type: the entities
\* referred to by the raw entries, or a failure of the enrichment of a type.
ActEnrichEntitiesByType(ok) ==
    /\ fs_pc = "enrich_entities_by_type"
    /\ LET ids == {e.entity_id : e \in fs_raw} \ {Null}
       IN  IF ok \/ ids = {}
           THEN /\ fs_enriched' = ids
                /\ fs_pc' = "generate_person_reports"
           ELSE /\ fs_enriched' = fs_enriched
                /\ fs_pc' = "failed"
    /\ UNCHANGED <<fs_users_option, fs_toggl, fs_raw, fs_aggregated,
                   fs_person_reports, fs_files>>
    /\ UNCHANGED othersStage

\* The users handed to generate_person_reports by _execute_fibery_stage.
StageUsers(users_option) ==
    IF users_option # <<>> THEN users_option ELSE GetUsersFromData

\* generate_person_reports: a report per user of the list; a user that is
\* no key of aggregated_data["users"] raises.
ActGeneratePersonReports ==
    /\ fs_pc = "generate_person_reports"
    /\ LET users == StageUsers(fs_users_option)
       IN  IF \A k \in DOMAIN users : users[k] \in fs_aggregated
           THEN /\ fs_person_reports' = users
                /\ fs_pc' = "save_enriched_data"
           ELSE /\ fs_person_reports' = fs_person_reports
                /\ fs_pc' = "failed"
    /\ UNCHANGED <<fs_users_option, fs_toggl, fs_raw, fs_aggregated,
                   fs_enriched, fs_files>>
    /\ UNCHANGED othersStage

\* The file of a person report.
PersonReportFile(user_email) == <<"reports", user_email>>

\* save_enriched_data: enriched_data.json and one file per person report.
ActSaveEnrichedData ==
    /\ fs_pc = "save_enriched_data"
    /\ fs_files' = fs_files \cup {<<"enriched_data.json">>}
                      \cup {PersonReportFile(fs_person_reports[k]) :
                               k \in DOMAIN fs_person_reports}
    /\ fs_pc' = "generate_team_report"
    /\ UNCHANGED <<fs_users_option, fs_toggl, fs_raw, fs_aggregated,
                   fs_enriched, fs_person_reports>>
    /\ UNCHANGED othersStage

\* generate_team_report: raises when the loaded list of enriched entities
\* is empty; otherwise writes reports/team_summary.md, and the run completes.
ActGenerateTeamReport ==
    /\ fs_pc = "generate_team_report"
    /\ IF fs_enriched = {}
       THEN /\ fs_pc' = "failed"
            /\ fs_files' = fs_files
       ELSE /\ fs_pc' = "completed"
            /\ fs_files' = fs_files \cup {<<"reports", "team_summary.md">>}
    /\ UNCHANGED <<fs_users_option, fs_toggl, fs_raw, fs_aggregated,
                   fs_enriched, fs_person_reports>>
    /\ UNCHANGED othersStage

StageNext ==
    \/ ActFetchTogglData
    \/ ActAggregateTogglData
    \/ \E ok \in BOOLEAN : ActEnrichEntitiesByType(ok)
    \/ ActGeneratePersonReports
    \/ ActSaveEnrichedData
    \/ ActGenerateTeamReport

InitStage ==
    /\ IdleExceptStage
    /\ fs_pc = "fetch_toggl_data"
    /\ fs_users_option \in UsersOptions
    /\ fs_toggl \in SUBSET StageEntries
    /\ fs_raw = {}
    /\ fs_aggregated = {}
    /\ fs_enriched = {}
    /\ fs_person_reports = <<>>
    /\ fs_files = {}

SpecStage == InitStage /\ [][StageNext]_vars


(***************************************************************************)
(* Part XVII: update_run_status, add_completed_stage and add_failed_stage  *)
(* of JSONStorage (storage/json_storage.py) as the three steps they are    *)
(* made of -- load the file, modify the object, save the file -- run by    *)
(* one or two writers on the same run id.  A load and a save are each      *)
(* taken as one step.                                                      *)
(***************************************************************************)
MaxCalls == 3

MetadataCalls ==
    [kind : {"update_run_status"}, arg : {"in_progress", "completed"}]
        \cup [kind : {"add_completed_stage", "add_failed_stage"}, arg : StageType]

\* metadata.stages_completed.append(stage) / metadata.stages_failed.append(stage)
append_stageMutantReplace(stages, stage) == <<stage>>
append_stage(stages, stage) == Append(stages, stage)

\* The call saves: `if metadata` / `if metadata and stage not in ...`.
CallSaves(metadata, call) ==
    /\ metadata # NoMeta
    /\ call.kind = "add_completed_stage" => call.arg \notin Range(metadata.stages_completed)
    /\ call.kind = "add_failed_stage" => call.arg \notin Range(metadata.stages_failed)

\* The object after the assignments of the call.
ModifiedMetadata(metadata, call) ==
    CASE call.kind = "update_run_status" -> update_run_status(metadata, call.arg, "")
      [] call.kind = "add_completed_stage" ->
            [metadata EXCEPT !.stages_completed = append_stage(@, call.arg)]
      [] call.kind = "add_failed_stage" ->
            [metadata EXCEPT !.stages_failed = append_stage(@, call.arg)]

\* metadata = self.load_run_metadata(run_id)
WriterLoad(w, call) ==
    /\ w <= lm_writers
    /\ lm_pc[w] = "idle"
    /\ lm_calls < MaxCalls
    /\ lm_calls' = lm_calls + 1
    /\ lm_pc' = [lm_pc EXCEPT ![w] = "loaded"]
    /\ lm_call' = [lm_call EXCEPT ![w] = call]
    /\ lm_loaded' = [lm_loaded EXCEPT ![w] = lm_file]
    /\ UNCHANGED <<lm_writers, lm_file, lm_saved>>
    /\ UNCHANGED othersWriter

\* The assignments and self.save_run_metadata(metadata), or the return
\* without saving.
WriterSave(w) ==
    /\ lm_pc[w] = "loaded"
    /\ IF CallSaves(lm_loaded[w], lm_call[w])
       THEN /\ lm_file' = ModifiedMetadata(lm_loaded[w], lm_call[w])
            /\ lm_saved' = Append(lm_saved, lm_call[w])
       ELSE UNCHANGED <<lm_file, lm_saved>>
    /\ lm_pc' = [lm_pc EXCEPT ![w] = "idle"]
    /\ lm_call' = [lm_call EXCEPT ![w] = NoCall]
    /\ UNCHANGED <<lm_writers, lm_loaded, lm_calls>>
    /\ UNCHANGED othersWriter

WriterNext ==
    \/ \E w \in Writers, call \in MetadataCalls : WriterLoad(w, call)
    \/ \E w \in Writers : WriterSave(w)

\* One or two writers on a run whose metadata file exists or not.
InitWriter ==
    /\ IdleExceptWriter
    /\ lm_writers \in Writers
    /\ lm_file \in {NoMeta, [NoMeta EXCEPT !.status = "in_progress"]}
    /\ lm_pc = [w \in Writers |-> "idle"]
    /\ lm_call = [w \in Writers |-> NoCall]
    /\ lm_loaded = [w \in Writers |-> NoMeta]
    /\ lm_calls = 0
    /\ lm_saved = <<>>

SpecWriter == InitWriter /\ [][WriterNext]_vars


(***************************************************************************)
(* Part XVIII: aggregate_toggl_data (activities/toggl_activities.py).  An  *)
(* entry is its user email, its duration and the result of parsing its     *)
(* description: matched with an entity key, or unmatched with a cleaned    *)
(* description.                                                            *)
(***************************************************************************)
MaxAggEntries == 2

\* parser.parse(description), reduced to is_matched and the grouping key.
ParsedDescriptions ==
    [is_matched : {TRUE}, key : {<<"Scrum", "Task", "7">>, <<"Scrum", "Task", "8">>}]
        \cup [is_matched : {FALSE}, key : {<<"standup">>, <<"review">>}]

\* The raw entries; "" is an entry without user email.
AggEntries ==
    [user_email : {"", "ann@x", "bob@x"}, duration : {1800, 3600},
     parsed : ParsedDescriptions]

\* The default value of user_data.
NewUserInfo ==
    [matched_entities |-> <<>>,
     unmatched_activities |-> <<>>,
     statistics |-> [total_duration_seconds |-> 0,
                     matched_duration_seconds |-> 0,
                     unmatched_duration_seconds |-> 0,
                     total_entries |-> 0,
                     matched_entries |-> 0,
                     unmatched_entries |-> 0]]

\* The dictionary `groups` after the entry is added under `key`.
AddToGroup(groups, key, duration) ==
    LET before == IF key \in DOMAIN groups THEN groups[key]
                  ELSE [duration_seconds |-> 0, entries_count |-> 0]
    IN  [k \in DOMAIN groups \cup {key} |->
            IF k = key
            THEN [duration_seconds |-> before.duration_seconds + duration,
                  entries_count |-> before.entries_count + 1]
            ELSE groups[k]]

\* The body of the loop for one entry with a user email.
AggregateEntryMutantNoMatchedTotal(user_info, entry) ==
    LET s == user_info.statistics
        t == [s EXCEPT !.total_duration_seconds = @ + entry.duration,
                       !.total_entries = @ + 1]
    IN  IF entry.parsed.is_matched
        THEN [user_info EXCEPT
                 !.matched_entities = AddToGroup(@, entry.parsed.key, entry.duration),
                 !.statistics = [t EXCEPT !.matched_entries = @ + 1]]
        ELSE [user_info EXCEPT
                 !.unmatched_activities = AddToGroup(@, entry.parsed.key, entry.duration),
                 !.statistics =
                     [t EXCEPT !.unmatched_duration_seconds = @ + entry.duration,
                               !.unmatched_entries = @ + 1]]
AggregateEntry(user_info, entry) ==
    LET s == user_info.statistics
        t == [s EXCEPT !.total_duration_seconds = @ + entry.duration,
                       !.total_entries = @ + 1]
    IN  IF entry.parsed.is_matched
        THEN [user_info EXCEPT
                 !.matched_entities = AddToGroup(@, entry.parsed.key, entry.duration),
                 !.statistics =
                     [t EXCEPT !.matched_duration_seconds = @ + entry.duration,
                               !.matched_entries = @ + 1]]
        ELSE [user_info EXCEPT
                 !.unmatched_activities = AddToGroup(@, entry.parsed.key, entry.duration),
                 !.statistics =
                     [t EXCEPT !.unmatched_duration_seconds = @ + entry.duration,
                               !.unmatched_entries = @ + 1]]

\* One turn of `for entry in time_entries`.
AggregateTurn ==
    /\ ag_pc = "loop"
    /\ ag_done < Len(ag_entries)
    /\ LET entry == ag_entries[ag_done + 1]
           user_email == entry.user_email
       IN  IF user_email = ""
           THEN ag_user_data' = ag_user_data
           ELSE LET user_info == IF user_email \in DOMAIN ag_user_data
                                 THEN ag_user_data[user_email]
                                 ELSE NewUserInfo
                IN  ag_user_data' =
                        [u \in DOMAIN ag_user_data \cup {user_email} |->
                            IF u = user_email
                            THEN AggregateEntry(user_info, entry)
                            ELSE ag_user_data[u]]
    /\ ag_done' = ag_done + 1
    /\ UNCHANGED <<ag_pc, ag_entries>>
    /\ UNCHANGED othersAgg

\* The conversion to lists and storage.save_toggl_aggregated.
AggregateSave ==
    /\ ag_pc = "loop"
    /\ ag_done = Len(ag_entries)
    /\ ag_pc' = "done"
    /\ UNCHANGED <<ag_entries, ag_done, ag_user_data>>
    /\ UNCHANGED othersAgg

AggNext ==
    \/ AggregateTurn
    \/ AggregateSave

InitAgg ==
    /\ IdleExceptAgg
    /\ ag_pc = "loop"
    /\ ag_entries \in UNION {[1..n -> AggEntries] : n \in 0..MaxAggEntries}
    /\ ag_done = 0
    /\ ag_user_data = <<>>

SpecAgg == InitAgg /\ [][AggNext]_vars

(***************************************************************************)
(* Properties                                                              *)
(***************************************************************************)
Items == 1..Len(entities)
RunDir == files[wf_input.run_id]
Checkpoints == {0, 5, 10, 25, 30, 35, 40, 50, 75, 85, 95, 100}
SameRun == wf_attempt' = wf_attempt

\* C1: a call in which no operation fails returns exactly N results, one
\* per input item, and has started the operation of each item exactly once,
\* whatever the completion order.
C1_OneResultPerItem ==
    rw_pc = "returned" =>
        /\ Len(results) = Len(entities)
        /\ \A i \in Items : Cardinality({k \in DOMAIN results : results[k] = i}) = 1
        /\ \A i \in Items : startCount[i] = 1
        /\ \A t \in DOMAIN taskState : taskState[t] = "ok"

C1_Witness ==
    /\ rw_pc = "returned"
    /\ Len(entities) >= 3
    /\ max_concurrent = 2
    /\ results[1] = 2

\* C2: whenever the call waits for a completion, the number of operations
\* in flight is min(max_concurrent, items not yet completed); it never exceeds
\* max_concurrent and equals it while unstarted items remain.
C2_WindowFull ==
    rw_pc = "wait" =>
        /\ Cardinality(running) = Min(max_concurrent, Len(entities) - Len(results))
        /\ Cardinality(running) <= max_concurrent
        /\ remaining # <<>> => Cardinality(running) = max_concurrent
        /\ Cardinality({t \in DOMAIN taskState : taskState[t] = "pending"}) <= max_concurrent

C2_Witness ==
    /\ rw_pc = "wait"
    /\ remaining # <<>>
    /\ Len(results) >= 1
    /\ Cardinality(running) = max_concurrent

\* C3: when an operation fails the call raises an error naming the failed
\* item, no queued item is started afterwards, and the operations in flight
\* at that moment do not go on to complete.
C3_FailureAbortsInFlight ==
    /\ [](rw_pc = "raised" =>
            \E t \in DOMAIN taskState :
                taskState[t] = "failed" /\ taskEntity[t] = rw_error)
    /\ [][rw_pc = "raised" => (startCount' = startCount /\ taskState' = taskState)]_vars

\* C4: whenever an activity fails, the stored metadata of the run ends with
\* status failed and the error text, and the workflow execution fails.
C4_FailureRecorded ==
    /\ (wf_state # "running" /\ act_result \notin {"", "ok"}) => wf_state = "failed"
    /\ wf_state = "failed" =>
           /\ meta[wf_input.run_id].status = "failed"
           /\ meta[wf_input.run_id].error_message = wf_error

\* C5 (as stated): a successful run ends in stage completed and a run in
\* which an activity fails ends in stage failed.
C5_EndsInCompletedOrFailed ==
    /\ wf_state = "completed" => progress.current_stage = "completed"
    /\ wf_state = "failed" => progress.current_stage = "failed"

\* C5 (amended): the stage reported by get_progress follows initializing ->
\* toggl (only when start_from is toggl) -> fibery and takes no other value; a
\* successful run ends in stage fibery with percentage 100, and a run in which
\* an activity fails keeps the stage it had when that activity was invoked.
C5_StageMachine ==
    /\ [](/\ progress.current_stage \in {"initializing", "toggl", "fibery"}
          /\ progress.current_stage = "toggl" => wf_input.start_from = "toggl"
          /\ progress.current_stage = "initializing" <=>
                (wf_state \in {"none", "running"} /\ wf_act = 0)
          /\ wf_state = "completed" =>
                (progress.current_stage = "fibery" /\ progress.percentage = 100))
    /\ [][SameRun =>
            \/ progress'.current_stage = progress.current_stage
            \/ /\ progress.current_stage = "initializing"
               /\ progress'.current_stage =
                     (IF wf_input.start_from = "toggl" THEN "toggl" ELSE "fibery")
            \/ /\ progress.current_stage = "toggl"
               /\ progress'.current_stage = "fibery"
               /\ 4 \in wf_succeeded']_vars
    /\ [][(wf_state = "running" /\ wf_state' = "failed") => progress' = progress]_vars

C5_Witness ==
    /\ wf_state = "completed"
    /\ wf_input.start_from = "toggl"
    /\ progress.current_stage = "fibery"

\* C6: within one run the activities are invoked in program order, each at
\* most once and, except for the first activity of the run, only after the
\* activity before it has succeeded; the percentage is non-decreasing, takes
\* only checkpoint values and is 100 only after generate_team_report succeeded.
C6_OrderAndPercentage ==
    /\ [](/\ \A i \in 1..NumActivities :
               /\ wf_invoked[i] <= 1
               /\ wf_invoked[i] = 1 =>
                    /\ i >= FirstActivity(wf_input.start_from)
                    /\ i # FirstActivity(wf_input.start_from) => (i - 1) \in wf_succeeded
               /\ i \in wf_succeeded => wf_invoked[i] = 1
          /\ progress.percentage \in Checkpoints
          /\ progress.percentage = 100 => NumActivities \in wf_succeeded
          /\ wf_act # 0 =>
               /\ progress.current_activity = ActivityNames[wf_act]
               /\ progress.percentage = Percentage[wf_act])
    /\ [][SameRun =>
            /\ progress'.percentage >= progress.percentage
            /\ \A i \in 1..NumActivities :
                 wf_invoked'[i] > wf_invoked[i] =>
                    \A j \in 1..NumActivities : wf_invoked[j] > 0 => j < i]_vars

C6_Witness ==
    /\ wf_state = "completed"
    /\ wf_input.start_from = "toggl"
    /\ progress.percentage = 100
    /\ \A i \in 1..NumActivities : wf_invoked[i] = 1

\* C7: a run started with start_from = fibery invokes no Toggl-stage
\* activity and leaves the three Toggl-stage files of its run unchanged.
C7_FiberyStartSkipsToggl ==
    /\ [](wf_input.start_from = "fibery" => \A i \in 1..4 : wf_invoked[i] = 0)
    /\ [][(wf_state = "running" /\ wf_input.start_from = "fibery") =>
            \A f \in TogglFiles : files'[wf_input.run_id][f] = files[wf_input.run_id][f]]_vars

C7_Witness ==
    /\ wf_state = "completed"
    /\ wf_input.start_from = "fibery"
    /\ \A f \in TogglFiles : RunDir[f] # 0
    /\ RunDir[TeamSummary] = wf_attempt

\* C8: each cleanup removes only the outputs of its own stage, in its own
\* run directory, leaves run_metadata.json alone, and can succeed whatever
\* files are present or absent.
CleanupStep(i) == wf_act = i /\ act_result = "" /\ act_result' = "ok"

C8_CleanupFrame ==
    /\ [](wf_act \in {1, FirstFiberyActivity} /\ act_result = "" =>
            ENABLED (ActivityExec /\ act_result' = "ok"))
    /\ [][CleanupStep(1) =>
            /\ \A f \in TogglFiles : files'[wf_input.run_id][f] = 0
            /\ \A f \in FiberyFiles : files'[wf_input.run_id][f] = files[wf_input.run_id][f]
            /\ \A r \in Runs \ {wf_input.run_id} : files'[r] = files[r]
            /\ meta' = meta]_vars
    /\ [][CleanupStep(FirstFiberyActivity) =>
            /\ \A f \in FiberyFiles : files'[wf_input.run_id][f] = 0
            /\ \A f \in TogglFiles : files'[wf_input.run_id][f] = files[wf_input.run_id][f]
            /\ \A r \in Runs \ {wf_input.run_id} : files'[r] = files[r]
            /\ meta' = meta]_vars

C8_Witness ==
    /\ wf_act = FirstFiberyActivity
    /\ act_result = "ok"
    /\ \A f \in TogglFiles : RunDir[f] # 0
    /\ \A f \in FiberyFiles : RunDir[f] = 0
    /\ meta[wf_input.run_id] # NoMeta
    /\ \E r \in Runs \ {wf_input.run_id} : \A f \in FileNames : files[r][f] # 0

\* C9 (as stated): once the current run has written any output file, every
\* stage output file present in the run directory was written by the current run.
C9_NoEarlierOutputs ==
    (\E f \in FileNames : RunDir[f] = wf_attempt) =>
        \A f \in FileNames : RunDir[f] \in {0, wf_attempt}

\* C9 (amended): for each stage separately, once the current run has written
\* an output file of that stage, every output file of that same stage present
\* in the run directory was written by the current run (outputs of the other
\* stage may stem from an earlier run).
C9_NoEarlierOutputsPerStage ==
    \A S \in {TogglFiles, FiberyFiles} :
        (\E f \in S : RunDir[f] = wf_attempt) =>
            \A f \in S : RunDir[f] \in {0, wf_attempt}

C9_Witness ==
    /\ wf_attempt >= 2
    /\ wf_input.start_from = "toggl"
    /\ RunDir[TogglAggregated] = wf_attempt
    /\ RunDir[EnrichedData] \notin {0, wf_attempt}
    /\ RunDir[IndividualReport("u1")] \notin {0, wf_attempt}

\* C10: once the status of a run is completed or failed, no later
\* operation changes it, in the JSON storage or in the relational cache.
C10_TerminalStatus ==
    [][\A r \in Runs :
         /\ meta[r].status \in Terminal => meta'[r].status = meta[r].status
         /\ db_runs[r].status \in Terminal => db_runs'[r].status = db_runs[r].status]_vars

\* s is an initial segment of t.
IsPrefix(s, t) ==
    /\ Len(s) <= Len(t)
    /\ \A i \in 1..Len(s) : s[i] = t[i]

NoDuplicates(s) == \A i, j \in 1..Len(s) : s[i] = s[j] => i = j

(***************************************************************************)
(* C11: under add_completed_stage, add_failed_stage and update_run_status  *)
(* on a run whose metadata exists, stages_completed and stages_failed only *)
(* grow by appending at the end: every step keeps the old list as a prefix *)
(* of the new one (nothing removed or reordered), and no stage name occurs *)
(* twice in the same list.                                                 *)
(***************************************************************************)
C11_StagesAppendOnly ==
    [][\A r \in Runs :
         meta[r] # NoMeta =>
           /\ IsPrefix(meta[r].stages_completed, meta'[r].stages_completed)
           /\ IsPrefix(meta[r].stages_failed, meta'[r].stages_failed)
           /\ NoDuplicates(meta'[r].stages_completed)
           /\ NoDuplicates(meta'[r].stages_failed)]_vars

C11_Witness ==
    \E r \in Runs :
      /\ meta[r].stages_completed = <<"fibery", "toggl">>
      /\ meta[r].stages_failed = <<"toggl", "fibery">>
      /\ meta[r].status = "failed"

\* The row that the last call holding entry id i should have left.
ExpectedTimeEntry(i) ==
    [toggl_id |-> i, run_id |-> te_last[i].run_id,
     duration |-> te_last[i].duration, description |-> te_last[i].description,
     updated_at |-> te_last[i].updated_at]

WithoutUpdatedAt(T) ==
    {[toggl_id |-> row.toggl_id, run_id |-> row.run_id,
      duration |-> row.duration, description |-> row.description] : row \in T}

(***************************************************************************)
(* C12: after any sequence of upsert_time_entries calls the raw-entry      *)
(* table holds exactly one row per distinct entry id passed so far, with   *)
(* the run id, duration and other field values of the last call that held  *)
(* that id; and upserting any batch a second time leaves the table as      *)
(* after the first time, apart from updated_at.                            *)
(***************************************************************************)
C12_LastUpsertWins ==
    /\ time_entries =
         {ExpectedTimeEntry(i) : i \in {j \in EntryIds : te_last[j] # NoEntry}}
    /\ \A run_id \in Runs, entries \in Batches(TogglEntries) :
         LET once == upsert_time_entries(time_entries, run_id, entries, te_clock + 1)
             twice == upsert_time_entries(once, run_id, entries, te_clock + 2)
         IN  WithoutUpdatedAt(twice) = WithoutUpdatedAt(once)

\* Entry 1 was passed by three calls, the last one under another run and
\* with another duration than entry 2, which only the first call passed.
C12_Witness ==
    /\ te_last[1].calls = 3
    /\ te_last[2].calls = 1
    /\ \E r1, r2 \in time_entries :
         /\ r1.toggl_id = 1 /\ r1.updated_at = 3 /\ r1.run_id = "r2"
         /\ r2.toggl_id = 2 /\ r2.updated_at = 1 /\ r2.run_id = "r1"
         /\ r1.duration # r2.duration

\* The rows of processed_time_entries that carry key k, NULLs compared as
\* values.
RowsWithKey(k) == {row \in DOMAIN processed : KeyOf(row) = k}

(***************************************************************************)
(* C13: after any sequence of upsert_processed_entries calls the processed *)
(* table holds exactly one row per distinct key (run, user, cleaned        *)
(* description, entity id, database, type, project) passed so far, absent  *)
(* key parts compared as equal to each other, and that row carries the     *)
(* total_duration and entry_count of the last call that held the key; no   *)
(* call raises.                                                            *)
(***************************************************************************)
C13_OneRowPerKey ==
    /\ ~pe_raised
    /\ \A k \in ProcessedKeys :
         IF pe_last[k] = NoMeasure
         THEN RowsWithKey(k) = {}
         ELSE /\ Cardinality(RowsWithKey(k)) = 1
              /\ \A row \in RowsWithKey(k) :
                   /\ processed[row] = 1
                   /\ row.total_duration = pe_last[k].total_duration
                   /\ row.entry_count = pe_last[k].entry_count

(***************************************************************************)
(* C14: a direct-pipeline run started with use_cache that has returned     *)
(* made no request to Toggl, and if the cache held raw entries fetched by  *)
(* an earlier run it loaded them, generated the reports and left its run   *)
(* row completed; it left the row failed only if the cache held no raw     *)
(* entries.                                                                *)
(***************************************************************************)
C14_CachedRunCompletes ==
    (dp_pc = "done" /\ dp_use_cache) =>
       /\ dp_toggl_requests = 0
       /\ IF time_entries # {}
          THEN /\ dp_raw # <<>>
               /\ dp_reports
               /\ db_runs[dp_run].status = "completed"
          ELSE db_runs[dp_run].status = "failed"

RECURSIVE Pow2(_)
Pow2(n) == IF n = 0 THEN 1 ELSE 2 * Pow2(n - 1)

(***************************************************************************)
(* C15: one call of TogglClient._make_request sends at most max_retries    *)
(* requests; it returns only a response with status 200, and that is the   *)
(* first 200 it met; when it raises, all max_retries attempts were made    *)
(* and none met a 200; the k-th wait of the call is 60 * 2^(k-1) seconds,  *)
(* and a wait precedes every further attempt.                              *)
(***************************************************************************)
C15_BoundedRetries ==
    /\ tg_sent <= tg_max_retries
    /\ tg_sent = Len(tg_statuses)
    /\ tg_pc = "responded" =>
         /\ tg_statuses[tg_sent] = "200"
         /\ \A i \in 1..(tg_sent - 1) : tg_statuses[i] # "200"
    /\ tg_pc = "raised" =>
         /\ tg_sent = tg_max_retries
         /\ \A i \in 1..tg_sent : tg_statuses[i] # "200"
    /\ \A k \in 1..Len(tg_waits) : tg_waits[k] = 60 * Pow2(k - 1)
    /\ tg_pc = "attempt" => Len(tg_waits) = tg_sent

C15_Witness ==
    /\ tg_pc = "responded"
    /\ tg_max_retries = 3
    /\ tg_statuses = <<"exception", "429", "200">>
    /\ tg_waits = <<60, 120>>

\* The calendar that holds Dates, in order.
Calendar ==
    <<[m |-> 2, d |-> 27], [m |-> 2, d |-> 28], [m |-> 3, d |-> 1],
      [m |-> 3, d |-> 2]>>

DayIndex(date) == CHOOSE k \in 1..Len(Calendar) : Calendar[k] = date

\* The calendar days from start to end inclusive, ascending.
DaysFromTo(start, end) ==
    [k \in 1..(DayIndex(end) - DayIndex(start) + 1) |->
       Calendar[DayIndex(start) + k - 1]]

RECURSIVE Concat(_)
Concat(ss) == IF ss = <<>> THEN <<>> ELSE Head(ss) \o Concat(Tail(ss))

(***************************************************************************)
(* C16: get_time_entries(start, end) runs the single-day fetch on the      *)
(* calendar days from start to end inclusive, in ascending order and once  *)
(* each, and returns the concatenation of what these fetches returned;     *)
(* with start after end it fetches nothing and returns the empty list.     *)
(***************************************************************************)
C16_DayByDay ==
    /\ IsPrefix(tg_days, DaysFromTo(tg_start, tg_end))
    /\ tg_pc = "returned" =>
         /\ tg_days = DaysFromTo(tg_start, tg_end)
         /\ Len(tg_day_results) = Len(tg_days)
         /\ tg_all_entries = Concat(tg_day_results)
    /\ (tg_pc = "returned" /\ DayIndex(tg_start) > DayIndex(tg_end)) =>
         /\ tg_days = <<>>
         /\ tg_all_entries = <<>>

\* Four days across the end of the month, one of them with two pages.
C16_Witness ==
    /\ tg_pc = "returned"
    /\ tg_start = [m |-> 2, d |-> 27]
    /\ tg_end = [m |-> 3, d |-> 2]
    /\ Len(tg_days) = 4
    /\ Len(tg_day_results[2]) = 2
    /\ tg_day_results[3] = <<>>
    /\ Len(tg_all_entries) = 4

\* The requests sent in the 60 seconds that end with the j-th request.
SentInWindow(j) ==
    {i \in 1..j : fb_send_times[i] > fb_send_times[j] - 60}

(***************************************************************************)
(* C17: in every rolling 60-second window the number of HTTP requests the  *)
(* FiberyClient has really sent, retries counted and each taken at the     *)
(* time it was sent, is at most max_requests_per_minute.                   *)
(***************************************************************************)
C17_RateCap ==
    \A j \in 1..Len(fb_send_times) : Cardinality(SentInWindow(j)) <= fb_max_rpm

(***************************************************************************)
(* C18: FiberyClient._make_request never raises and sends at most          *)
(* max_retries requests; a 200 ends the call with the parsed body; another *)
(* status that is not 429 or 5xx ends it with absent, without retry; after *)
(* 429 or 5xx it sleeps min(2^attempt, 60) seconds, after a timeout or     *)
(* transport error 2^attempt seconds, and tries again, unless max_retries  *)
(* requests have been sent, in which case it returns absent.               *)
(***************************************************************************)
C18_RetryPolicy ==
    /\ fb_sent <= fb_max_retries
    /\ fb_result \in {"", "body", "absent"}
    /\ fb_pc = "idle" <=> (fb_calls = 0 \/ fb_result # "")
    /\ fb_result = "body" <=> fb_last = "200"
    /\ fb_last = "404" => fb_result = "absent"
    /\ fb_last \in {"429", "500"} =>
         /\ fb_last_wait = Min(TwoToThe(fb_sent - 1), 60)
         /\ fb_result = IF fb_sent < fb_max_retries THEN "" ELSE "absent"
    /\ fb_last \in {"timeout", "exception"} =>
         IF fb_sent < fb_max_retries
         THEN fb_last_wait = TwoToThe(fb_sent - 1) /\ fb_result = ""
         ELSE fb_result = "absent"

\* The seventh request of a call met a 429: the capped wait, then absent.
C18_Witness ==
    /\ fb_max_retries = 7
    /\ fb_sent = 7
    /\ fb_last = "429"
    /\ fb_last_wait = 60
    /\ fb_result = "absent"
    /\ fb_pc = "idle"

\* The reference function of the parser, on a string s.
\* Positions where an id match starts: a "#" followed by a digit.
RefIdStarts(s) == {p \in 1..(Len(s) - 1) : s[p] = "#" /\ s[p + 1] \in Digits}

RefRightmost(s) == CHOOSE p \in RefIdStarts(s) : \A q \in RefIdStarts(s) : q <= p

\* The digits that follow position p.
RefDigits(s, p) ==
    LET stop == CHOOSE q \in p..Len(s) :
                  /\ \A k \in (p + 1)..q : s[k] \in Digits
                  /\ (q = Len(s) \/ s[q + 1] \notin Digits)
    IN  SubSeq(s, p + 1, stop)

\* s without its leading and trailing blanks.
RefTrim(s) ==
    LET inked == {k \in 1..Len(s) : s[k] # " "}
    IN  IF inked = {} THEN <<>>
        ELSE SubSeq(s, CHOOSE k \in inked : \A j \in inked : k <= j,
                       CHOOSE k \in inked : \A j \in inked : j <= k)

\* The "]" that closes a tag opened at p: the first one after p, provided
\* something stands between them (0 = none).
RefClose(s, p) ==
    LET closes == {q \in (p + 1)..Len(s) : s[q] = "]"}
        q == CHOOSE c \in closes : \A d \in closes : c <= d
    IN  IF s[p] = "[" /\ closes # {} /\ q > p + 1 THEN q ELSE 0

\* Tags do not overlap: a tag opens at p unless p lies inside an earlier one.
RefTagStarts(s) ==
    {p \in 1..Len(s) :
       /\ RefClose(s, p) # 0
       /\ \A o \in 1..(p - 1) : RefClose(s, o) < p}

RefTags(s) ==
    LET starts == RefTagStarts(s)
        nth(n) == CHOOSE p \in starts : Cardinality({o \in starts : o < p}) = n - 1
    IN  [n \in 1..Cardinality(starts) |->
           SubSeq(s, nth(n) + 1, RefClose(s, nth(n)) - 1)]

RefParse(s) ==
    IF s = None \/ RefIdStarts(s) = {}
    THEN [description_clean |-> IF s = None THEN <<>> ELSE RefTrim(s),
          entity_id |-> None, entity_database |-> None, entity_type |-> None,
          project |-> None, is_matched |-> FALSE]
    ELSE LET tags == RefTags(s)
             n == Len(tags)
         IN  [description_clean |-> RefTrim(SubSeq(s, 1, RefRightmost(s) - 1)),
              entity_id |-> RefDigits(s, RefRightmost(s)),
              entity_database |-> IF n = 0 THEN None ELSE tags[1],
              entity_type |-> IF n >= 2 THEN tags[2] ELSE None,
              project |-> IF n = 0 THEN None
                          ELSE IF n = 1 THEN tags[1] ELSE tags[n],
              is_matched |-> TRUE]

(***************************************************************************)
(* C19: for every description parse returns what the reference function    *)
(* gives: matched exactly when an id match exists; then entity_id is the   *)
(* rightmost id match, description_clean the trimmed text before it, and   *)
(* the n tags found anywhere give no field for n = 0, database = project = *)
(* the tag and no type for n = 1, database = first, type = second and      *)
(* project = last tag for n >= 2; unmatched, empty or absent input gives   *)
(* the trimmed input and no field; parse never raises.                     *)
(***************************************************************************)
C19_ParseIsReference ==
    ps_pc = "returned" => ps_result = RefParse(ps_description)

\* Two id matches, text before the second, and two different tags.
C19_Witness ==
    /\ ps_pc = "returned"
    /\ ps_result.is_matched
    /\ ps_result.entity_id = <<"2">>
    /\ Len(IdMatches(ps_description, 1)) = 2
    /\ ps_result.entity_database # ps_result.entity_type
    /\ ps_result.entity_type # None
    /\ ps_result.description_clean # <<>>

\* The task's state reads done, completed or closed in some casing.
RefCompleted(task) ==
    /\ task.state.kind \in {"dict", "str"}
    /\ task.state.name \in {"Done", "completed", "CLOSED"}

\* The tasks of the Feature that aggregated_stats should count as overdue:
\* the claim leaves open only tasks without a readable planned end.
RefOverdue ==
    {i \in 1..Len(ft_tasks) :
       /\ ~RefCompleted(ft_tasks[i])
       /\ ft_tasks[i].plannedEnd \in {1, 2, 3}
       /\ ft_tasks[i].plannedEnd < Now}

(***************************************************************************)
(* C20: in aggregated_stats a task whose state is done, completed or       *)
(* closed (in any casing) is never among the overdue tasks, a task with a  *)
(* planned end before now and any other state is, overdue_tasks counts     *)
(* exactly the tasks flagged overdue, completed_tasks + remaining_tasks =  *)
(* total_tasks and overdue_tasks <= remaining_tasks.                       *)
(***************************************************************************)
C20_OverdueStats ==
    ft_pc = "returned" =>
      /\ \A i \in 1..Len(ft_tasks) :
           /\ RefCompleted(ft_tasks[i]) => ~ft_feature_tasks[i].is_overdue
           /\ i \in RefOverdue => ft_feature_tasks[i].is_overdue
      /\ ft_stats.overdue_tasks =
           Cardinality({i \in 1..Len(ft_tasks) : ft_feature_tasks[i].is_overdue})
      /\ ft_stats.total_tasks = Len(ft_tasks)
      /\ ft_stats.completed_tasks + ft_stats.remaining_tasks = ft_stats.total_tasks
      /\ ft_stats.overdue_tasks <= ft_stats.remaining_tasks

\* A closed task with a planned end in the past next to an open one that
\* is overdue.
C20_Witness ==
    /\ ft_pc = "returned"
    /\ Len(ft_tasks) = 2
    /\ ft_tasks[1].state = [kind |-> "dict", name |-> "CLOSED"]
    /\ ft_tasks[1].plannedEnd = 1
    /\ ft_tasks[2].state = [kind |-> "str", name |-> "Open"]
    /\ ft_tasks[2].plannedEnd = 1
    /\ ft_stats.overdue_tasks = 1
    /\ ft_stats.completed_tasks = 1

\* total = matched + unmatched; both percentages are 0 when the total is 0,
\* and otherwise each is its share of the total times 100 and they add up
\* to 100.
SoundStatistics(st) ==
    /\ st.total_seconds = st.matched_seconds + st.unmatched_seconds
    /\ st.total_hours.num * 3600 = st.total_seconds * st.total_hours.den
    /\ st.total_seconds = 0 =>
           /\ st.matched_pct.num = 0
           /\ st.unmatched_pct.num = 0
    /\ st.total_seconds # 0 =>
           /\ st.matched_pct.num * st.total_seconds
                  = st.matched_seconds * 100 * st.matched_pct.den
           /\ st.unmatched_pct.num * st.total_seconds
                  = st.unmatched_seconds * 100 * st.unmatched_pct.den
           /\ st.matched_pct.num * st.unmatched_pct.den
                  + st.unmatched_pct.num * st.matched_pct.den
                  = 100 * st.matched_pct.den * st.unmatched_pct.den

(***************************************************************************)
(* C21: in the individual report and in the team report the total time is  *)
(* the sum of the matched and the unmatched seconds (of the entries given, *)
(* respectively of all users), both percentages are 0 when the total is 0, *)
(* and otherwise each percentage is its share of the total times 100, the  *)
(* two adding up to 100.                                                   *)
(***************************************************************************)
C21_ReportPercentages ==
    /\ rp_individual # NoReport =>
           /\ SoundStatistics(rp_individual)
           /\ rp_individual.matched_seconds = SumTotalDuration(rp_matched)
           /\ rp_individual.unmatched_seconds = SumTotalDuration(rp_unmatched)
    /\ rp_team # NoReport =>
           /\ SoundStatistics(rp_team)
           /\ rp_team.matched_seconds = SumStats(rp_user_stats, "matched_seconds")
           /\ rp_team.unmatched_seconds = SumStats(rp_user_stats, "unmatched_seconds")

\* A team report over two users without any tracked time, and so with a
\* total of 0.
C21_Witness ==
    /\ rp_team # NoReport
    /\ Len(rp_user_stats) = 2
    /\ rp_team.total_seconds = 0

\* The individual report of 7200 s matched and 1800 s unmatched: 2.5 hours,
\* 80 and 20 percent.
C21_WitnessExample ==
    /\ rp_individual # NoReport
    /\ rp_individual.matched_seconds = 7200
    /\ rp_individual.unmatched_seconds = 1800
    /\ rp_individual.total_hours.num * 2 = 5 * rp_individual.total_hours.den
    /\ rp_individual.matched_pct.num = 80 * rp_individual.matched_pct.den
    /\ rp_individual.unmatched_pct.num = 20 * rp_individual.unmatched_pct.den

(***************************************************************************)
(* C22: when `pipeline run` is started without a run id, the run id it     *)
(* generates and embeds in the workflow id is the run id under which the   *)
(* workflow stores the artifacts of that run: cancel-run with that run id  *)
(* addresses the workflow, and show-run with it addresses a run directory  *)
(* that holds the artifacts of the run.                                    *)
(***************************************************************************)
C22_OneRunId ==
    cli_option = NoRunId =>
        /\ cli_wf_run_id # NoRunId =>
               /\ cli_wf_run_id = cli_run_id
               /\ cli_workflow_id = WorkflowId(cli_wf_run_id)
        /\ cli_cancel.run_id = cli_run_id /\ cli_cancel # NoAddress => cli_cancel.hit
        /\ cli_show.run_id = cli_run_id /\ cli_show # NoAddress /\ cli_dirs # {}
               => cli_show.hit

(***************************************************************************)
(* C23: each group is run with max_concurrent equal to the type's own      *)
(* configured max_concurrent when that is set, otherwise to the default    *)
(* entry's max_concurrent when that is set, and to 5 only when neither is  *)
(* set.                                                                    *)
(***************************************************************************)
C23_MaxConcurrent ==
    \A t \in TypeNames :
        mc_used[t] # Unset =>
            mc_used[t] =
                IF mc_config.types[t] # Unset THEN mc_config.types[t]
                ELSE IF mc_config.default # Unset THEN mc_config.default
                ELSE 5

(***************************************************************************)
(* C24: within one run no two entries of the enrichment set carry the same *)
(* entity id: an id occurs in at most one (database, type) group and at    *)
(* most once in each group, at most once among the enriched entities, and  *)
(* the entity-id-keyed map of generate_person_reports holds every enriched *)
(* entity.                                                                 *)
(***************************************************************************)
C24_UniqueEntityIds ==
    /\ \A g, h \in DOMAIN ex_by_type :
           \A i \in DOMAIN ex_by_type[g].ids, j \in DOMAIN ex_by_type[h].ids :
               ex_by_type[g].ids[i] = ex_by_type[h].ids[j] => g = h /\ i = j
    /\ \A k, l \in DOMAIN ex_enriched :
           ex_enriched[k].entity_id = ex_enriched[l].entity_id => k = l
    /\ ex_pc = "done" /\ ex_enriched # <<>> =>
           \A k \in DOMAIN ex_enriched :
               ex_entity_map[ex_enriched[k].entity_id] = ex_enriched[k]

\* The positions of the log entries that ended in one of the given ways.
LoggedAs(hows) == {k \in DOMAIN eb_log : eb_log[k].how \in hows}

C26_CursorCarried ==
    fd_pc = "response" /\ fd_page_num > 1
        => /\ fd_payload.first_id = IntOf(fd_previous.next_id)
           /\ fd_payload.first_row_number = IntOf(fd_previous.first_row_number)

\* The run of Part XVI has ended.
StageEnded == fs_pc \in {"completed", "failed"}

\* The run ended because the enrichment of an entity type raised.
EnrichmentFailed ==
    /\ fs_pc = "failed"
    /\ fs_enriched = {}
    /\ {e.entity_id : e \in fs_raw} \ {Null} # {}

\* The users whose person report file has been written, in lower case.
ReportedUsers ==
    {Lower(u) : u \in {v \in Emails : PersonReportFile(v) \in fs_files}}

(***************************************************************************)
(* C27: a run started without a user filter ends with one saved person     *)
(* report for every user that has entries in the aggregated data; a run    *)
(* started with a filter ends with one for every user whose entries were   *)
(* kept by the filter of fetch_toggl_data.  The enrichment is taken to     *)
(* succeed.                                                                *)
(***************************************************************************)
C27_PersonReportsForUsers ==
    StageEnded /\ ~EnrichmentFailed
        => ReportedUsers = {Lower(u) : u \in fs_aggregated}

(***************************************************************************)
(* C28: a run whose entries carry no entity reference, and whose person    *)
(* reports and enriched data have been saved, ends completed, with         *)
(* reports/team_summary.md written.                                        *)
(***************************************************************************)
C28_NoReferenceCompletes ==
    (/\ StageEnded
     /\ \A e \in fs_toggl : e.entity_id = Null
     /\ <<"enriched_data.json">> \in fs_files)
        => /\ fs_pc = "completed"
           /\ <<"reports", "team_summary.md">> \in fs_files

\* The positions of the saved calls of a kind.
SavedOfKind(kind) == {k \in DOMAIN lm_saved : lm_saved[k].kind = kind}

\* Every update that was saved is in the file: each stage added is in its
\* list, and the status is the one of the last status update.
NoLostUpdate ==
    /\ \A k \in SavedOfKind("add_completed_stage") :
           lm_saved[k].arg \in Range(lm_file.stages_completed)
    /\ \A k \in SavedOfKind("add_failed_stage") :
           lm_saved[k].arg \in Range(lm_file.stages_failed)
    /\ \A k \in SavedOfKind("update_run_status") :
           (\A l \in SavedOfKind("update_run_status") : l <= k)
               => lm_file.status = lm_saved[k].arg

(***************************************************************************)
(* C29: with a single writer on a run id no update of the run metadata is  *)
(* ever lost; with two writers whose calls interleave an update can be     *)
(* lost (the state of C29_Witness).                                        *)
(***************************************************************************)
C29_SingleWriterLosesNothing ==
    lm_writers = 1 => NoLostUpdate

\* Two writers: the stage added by one of them is missing from the file
\* after the other has saved.
C29_Witness ==
    /\ lm_writers = 2
    /\ \A w \in Writers : lm_pc[w] = "idle"
    /\ \E k \in SavedOfKind("add_completed_stage") :
           lm_saved[k].arg \notin Range(lm_file.stages_completed)

\* One writer: two stages added one after the other are both in the file.
C29_WitnessSingle ==
    /\ lm_writers = 1
    /\ lm_pc[1] = "idle"
    /\ Len(lm_file.stages_completed) = 2

\* The sum of a field over the values of a dictionary of groups.
RECURSIVE GroupSum(_, _, _)
GroupSum(groups, keys, field) ==
    IF keys = {} THEN 0
    ELSE LET k == CHOOSE x \in keys : TRUE
         IN  groups[k][field] + GroupSum(groups, keys \ {k}, field)

\* The positions of the raw entries of a user.
EntriesOf(user_email) ==
    {k \in DOMAIN ag_entries : ag_entries[k].user_email = user_email}

\* The statistics of one user agree with the user's groups and raw entries.
ConsistentUser(user_email) ==
    LET info == ag_user_data[user_email]
        s == info.statistics
        m == info.matched_entities
        n == info.unmatched_activities
    IN  /\ s.total_duration_seconds
              = s.matched_duration_seconds + s.unmatched_duration_seconds
        /\ s.total_entries = s.matched_entries + s.unmatched_entries
        /\ GroupSum(m, DOMAIN m, "duration_seconds") = s.matched_duration_seconds
        /\ GroupSum(m, DOMAIN m, "entries_count") = s.matched_entries
        /\ GroupSum(n, DOMAIN n, "duration_seconds") = s.unmatched_duration_seconds
        /\ GroupSum(n, DOMAIN n, "entries_count") = s.unmatched_entries
        /\ s.total_entries = Cardinality(EntriesOf(user_email))
        /\ \A k \in EntriesOf(user_email) :
               IF ag_entries[k].parsed.is_matched
               THEN ag_entries[k].parsed.key \in DOMAIN m
               ELSE ag_entries[k].parsed.key \in DOMAIN n

(***************************************************************************)
(* C30: in the output of aggregate_toggl_data, for every user the total    *)
(* duration and entry count are the sums of the matched and unmatched      *)
(* ones, the durations and counts of the matched entities (unmatched       *)
(* activities) add up to the matched (unmatched) statistics, and every raw *)
(* entry with a user email is counted once, under its own key, for that    *)
(* user; the users are those of the raw entries with an email.             *)
(***************************************************************************)
C30_AggregatedSums ==
    ag_pc = "done" =>
        /\ DOMAIN ag_user_data = {ag_entries[k].user_email : k \in DOMAIN ag_entries} \ {""}
        /\ \A u \in DOMAIN ag_user_data : ConsistentUser(u)

\* An output in which one user has a matched and an unmatched entry.
C30_Witness ==
    /\ ag_pc = "done"
    /\ \E u \in DOMAIN ag_user_data :
           /\ ag_user_data[u].statistics.matched_entries = 1
           /\ ag_user_data[u].statistics.unmatched_entries = 1

====
